---------------------------- MODULE Spec2Model ----------------------------
(***************************************************************************)
(* A model of kibble's connection layer (src/src/connection.rs) and of its *)
(* value formatting (src/src/types.rs).                                    *)
(*                                                                         *)
(* Strings are sequences of one-character strings. Bytes are naturals in   *)
(* 0..255. A 64-bit integer is a sequence of 64 bits, least significant    *)
(* bit first, so that values around 2^53 and 2^63 can be written down.     *)
(***************************************************************************)
EXTENDS Integers, Sequences, FiniteSets, TLC

VARIABLES
    fast,   \* the FastRowCollector driven by the decoder (query_raw's writer)
    dec,    \* the decoder's position in its event stream
    buf,    \* the buffer encode() returned, NoBuf before
    js,     \* the JsRowCollector driven by the decoder (query's writer)
    qres,   \* what query returned for that collector, NoResult before
    sql,    \* substitute_params: the template's characters
    params, \* substitute_params: the arguments
    i,      \* substitute_params: the scan position, counted from 0
    result, \* substitute_params: the output built so far
    ret,    \* substitute_params: the value returned, NoResult before
    inner,  \* Client.inner: the connection behind the mutex, "None" or "Some"
    guard,  \* the task holding the mutex guard, NoTask when it is free
    task    \* per task: the call it is in and how far it got

fastVars == <<fast, buf>>
jsVars == <<js, qres>>
substVars == <<sql, params, i, result, ret>>
clientVars == <<inner, guard, task>>
vars == <<fast, dec, buf, js, qres, sql, params, i, result, ret, inner, guard, task>>

(***************************************************************************)
(* Bounds of the model.                                                    *)
(***************************************************************************)
\* the most cell writes the decoder sends to a FastRowCollector
MaxFastCells == 2
\* the most metadata events the decoder sends in one batch
MaxMetas == 2
\* the most cell writes the decoder sends to a JsRowCollector, every handler in use
MaxJsCells == 2
\* the most cell writes the decoder sends when rows of several columns are built
MaxRowCells == 4
\* the longest template enumerated character by character
MaxTemplateLen == 4
\* the number of tasks calling the Client concurrently
NTasks == 2
\* the cells written when the cell texts are examined
MaxTypeCells == 1
\* the most cell writes the decoder sends to a FastRowCollector when the
\* cells are texts
MaxTextCells == 3

(***************************************************************************)
(* Characters and their UTF-8 bytes (str::as_bytes, str::len). A character *)
(* is a one-character string; the backslash, the backquote and the         *)
(* two-byte U+00E9 are written by their code points.                       *)
(***************************************************************************)
\* the UTF-8 encoding of one character: ASCII is one byte, U+00E9 is two
Utf8Char(c) ==
    LET Printable ==
    << " ", "!", "\"", "#", "$", "%", "&", "'", "(", ")", "*", "+", ",", "-",
        ".", "/", "0", "1", "2", "3", "4", "5", "6", "7", "8", "9", ":", ";",
        "<", "=", ">", "?", "@", "A", "B", "C", "D", "E", "F", "G", "H", "I",
        "J", "K", "L", "M", "N", "O", "P", "Q", "R", "S", "T", "U", "V", "W",
        "X", "Y", "Z", "[", "U+005C", "]", "^", "_", "U+0060", "a", "b", "c", "d", "e",
        "f", "g", "h", "i", "j", "k", "l", "m", "n", "o", "p", "q", "r", "s",
        "t", "u", "v", "w", "x", "y", "z", "{", "|", "}", "~" >>
    IN  IF c = "U+00E9" THEN <<195, 169>>
        ELSE <<31 + CHOOSE k \in 1..Len(Printable) : Printable[k] = c>>

RECURSIVE as_bytes(_)
as_bytes(s) == IF s = <<>> THEN <<>> ELSE Utf8Char(Head(s)) \o as_bytes(Tail(s))

(***************************************************************************)
(* 64-bit integers as bit sequences: b[k] is bit k-1.                      *)
(***************************************************************************)
Zero64 == [k \in 1..64 |-> 0]

\* 2^e for 0 <= e <= 63
Pow2Bits(e) == [k \in 1..64 |-> IF k = e + 1 THEN 1 ELSE 0]

\* 2^n - 1 for 0 <= n <= 64
LowOnes(n) == [k \in 1..64 |-> IF k <= n THEN 1 ELSE 0]

\* b + 1, wrapping
Inc64(b) == [k \in 1..64 |-> IF \A j \in 1..(k - 1) : b[j] = 1 THEN 1 - b[k] ELSE b[k]]

\* two's complement negation, wrapping
Neg64(b) == Inc64([k \in 1..64 |-> 1 - b[k]])

\* a natural below 2^31 as 64 bits
NatBits(n) == [k \in 1..64 |-> IF k <= 31 THEN (n \div (2 ^ (k - 1))) % 2 ELSE 0]

\* `v as i64` for an integer that fits 32 bits: sign extension
I64Bits(n) == IF n >= 0 THEN NatBits(n) ELSE Neg64(NatBits(0 - n))

\* unsigned comparison a <= b
U64Leq(a, b) ==
    \/ a = b
    \/ \E k \in 1..64 : a[k] < b[k] /\ \A j \in (k + 1)..64 : a[j] = b[j]

\* i64::unsigned_abs
unsigned_abs(v) == IF v[64] = 1 THEN Neg64(v) ELSE v

\* the 8 little-endian bytes of a 64-bit pattern (to_le_bytes)
LeBytes64(b) ==
    [j \in 1..8 |->
        b[8 * (j - 1) + 1] + 2 * b[8 * (j - 1) + 2] + 4 * b[8 * (j - 1) + 3]
        + 8 * b[8 * (j - 1) + 4] + 16 * b[8 * (j - 1) + 5] + 32 * b[8 * (j - 1) + 6]
        + 64 * b[8 * (j - 1) + 7] + 128 * b[8 * (j - 1) + 8]]

\* u32::to_le_bytes (width 4) and u16::to_le_bytes (width 2), for values below 2^31
LeBytes(n, width) == [j \in 1..width |-> (n \div (256 ^ (j - 1))) % 256]

\* the position of the highest set bit of a nonzero pattern, 0..63
HighBit(m) == CHOOSE e \in 0..63 : m[e + 1] = 1 /\ \A j \in (e + 2)..64 : m[j] = 0

(***************************************************************************)
(* `v as f64` for an i64: sign, biased exponent and 52-bit fraction, the   *)
(* magnitude rounded to 53 significant bits, ties to even.                 *)
(***************************************************************************)
i64_as_f64(v) ==
    LET m == unsigned_abs(v) IN
    IF m = Zero64 THEN Zero64
    ELSE
        LET e == HighBit(m)
            sh == e - 52
            \* the 53 leading bits of m, q[1] the lowest
            q == [j \in 1..53 |->
                    IF j + sh >= 1 /\ j + sh <= 64 THEN m[j + sh] ELSE 0]
            roundUp ==
                /\ sh >= 1
                /\ m[sh] = 1
                /\ \/ \E j \in 1..(sh - 1) : m[j] = 1
                   \/ q[1] = 1
            carryOut == roundUp /\ \A j \in 1..53 : q[j] = 1
            r == IF roundUp
                 THEN [j \in 1..53 |->
                        IF \A t \in 1..(j - 1) : q[t] = 1 THEN 1 - q[j] ELSE q[j]]
                 ELSE q
            ex == IF carryOut THEN e + 1024 ELSE e + 1023
        IN  [k \in 1..64 |->
                IF k <= 52 THEN (IF carryOut THEN 0 ELSE r[k])
                ELSE IF k <= 63 THEN (ex \div (2 ^ (k - 53))) % 2
                ELSE v[64]]

(***************************************************************************)
(* FastRowCollector: the binary-encoding RowWriter.                        *)
(***************************************************************************)
TAG_NULL == 0
TAG_FALSE == 1
TAG_TRUE == 2
TAG_F64 == 3
TAG_BIGINT == 4
TAG_STRING_REF == 5
TAG_BYTES == 6

FastRowCollector_default ==
    [columns |-> <<>>, cols_per_row |-> 0, rows_affected |-> 0, row_count |-> 0,
     cell_buf |-> <<>>, string_table |-> <<>>, string_map |-> [s \in {} |-> 0]]

\* interning without the lookup: every string gets a new entry
intern_string_no_lookup(w, s) ==
    LET idx == Len(w.string_table) IN
    [w |-> [w EXCEPT
               !.string_map = [x \in DOMAIN w.string_map \cup {s} |->
                                   IF x = s THEN idx ELSE w.string_map[x]],
               !.string_table = Append(@, s)],
     idx |-> idx]

\* interning that leaves string_map as it was
intern_string_map_not_updated(w, s) ==
    IF s \in DOMAIN w.string_map
    THEN [w |-> w, idx |-> w.string_map[s]]
    ELSE [w |-> [w EXCEPT !.string_table = Append(@, s)], idx |-> Len(w.string_table)]

\* the collector after interning s, and the index returned
intern_string(w, s) ==
    IF s \in DOMAIN w.string_map
    THEN [w |-> w, idx |-> w.string_map[s]]
    ELSE LET idx == Len(w.string_table) IN
         [w |-> [w EXCEPT
                    !.string_map = [x \in DOMAIN w.string_map \cup {s} |->
                                        IF x = s THEN idx ELSE w.string_map[x]],
                    !.string_table = Append(@, s)],
          idx |-> idx]

Fast_on_metadata(w, columns) ==
    [w EXCEPT !.columns = columns, !.cols_per_row = Len(columns)]

Fast_write_null(w) == [w EXCEPT !.cell_buf = Append(@, TAG_NULL)]

Fast_write_bool(w, v) ==
    [w EXCEPT !.cell_buf = Append(@, IF v THEN TAG_TRUE ELSE TAG_FALSE)]

\* the double tag up to 2^54
Fast_write_i64_upto54(w, v) ==
    IF U64Leq(unsigned_abs(v), Pow2Bits(54))
    THEN [w EXCEPT !.cell_buf = Append(@, TAG_F64) \o LeBytes64(i64_as_f64(v))]
    ELSE [w EXCEPT !.cell_buf = Append(@, TAG_BIGINT) \o LeBytes64(v)]

Fast_write_i64(w, v) ==
    IF U64Leq(unsigned_abs(v), Pow2Bits(53))
    THEN [w EXCEPT !.cell_buf = Append(@, TAG_F64) \o LeBytes64(i64_as_f64(v))]
    ELSE [w EXCEPT !.cell_buf = Append(@, TAG_BIGINT) \o LeBytes64(v)]

\* write_u8, write_i16, write_i32: v as f64, always the double tag
Fast_write_i32(w, v) ==
    [w EXCEPT !.cell_buf = Append(@, TAG_F64) \o LeBytes64(i64_as_f64(I64Bits(v)))]

Fast_write_str(w, v) ==
    LET r == intern_string(w, v) IN
    [r.w EXCEPT !.cell_buf = Append(@, TAG_STRING_REF) \o LeBytes(r.idx, 4)]

Fast_write_bytes(w, v) ==
    [w EXCEPT !.cell_buf = Append(@, TAG_BYTES) \o LeBytes(Len(v), 4) \o v]

Fast_on_done(w, rows) ==
    [w EXCEPT !.rows_affected = rows, !.row_count = rows]

(***************************************************************************)
(* types.rs: integer and decimal rendering.                                *)
(***************************************************************************)
Digits == <<"0", "1", "2", "3", "4", "5", "6", "7", "8", "9">>

\* u128::to_string of a natural
RECURSIVE NatToString(_)
NatToString(n) ==
    IF n < 10 THEN <<Digits[n + 1]>>
    ELSE NatToString(n \div 10) \o <<Digits[(n % 10) + 1]>>

\* i64::to_string, i128::to_string
IntToString(n) == IF n < 0 THEN <<"-">> \o NatToString(0 - n) ELSE NatToString(n)

\* format!("{s:0>width$}"): left padding with zeros, never truncating
RECURSIVE PadZeros(_, _)
PadZeros(s, width) == IF Len(s) >= width THEN s ELSE PadZeros(<<"0">> \o s, width)

\* the fraction written without its padding
decimal_to_string_unpadded(value, scale) ==
    IF scale = 0 THEN IntToString(value)
    ELSE
        LET abs == IF value < 0 THEN 0 - value ELSE value
            sign == IF value < 0 THEN <<"-">> ELSE <<>>
            divisor == 10 ^ scale
        IN  sign \o NatToString(abs \div divisor) \o <<".">> \o NatToString(abs % divisor)

decimal_to_string(value, scale) ==
    IF scale = 0 THEN IntToString(value)
    ELSE
        LET abs == IF value < 0 THEN 0 - value ELSE value
            sign == IF value < 0 THEN <<"-">> ELSE <<>>
            divisor == 10 ^ scale
            integer == abs \div divisor
            fraction == abs % divisor
        IN  sign \o NatToString(integer) \o <<".">> \o PadZeros(NatToString(fraction), scale)

(***************************************************************************)
(* types.rs: dates and times. A 64-bit count (nanos, micros, total_secs)   *)
(* is its bit pattern; what is left after the divisions fits an integer.   *)
(***************************************************************************)
\* the 64-bit pattern of 8 little-endian bytes (from_le_bytes)
FromLeBytes64(by) ==
    LET bits8(v) == <<v % 2, (v \div 2) % 2, (v \div 4) % 2, (v \div 8) % 2,
                      (v \div 16) % 2, (v \div 32) % 2, (v \div 64) % 2, (v \div 128) % 2>>
    IN  bits8(by[1]) \o bits8(by[2]) \o bits8(by[3]) \o bits8(by[4])
        \o bits8(by[5]) \o bits8(by[6]) \o bits8(by[7]) \o bits8(by[8])

\* b / d and b % d for a 64-bit pattern b and 0 < d <= 2^23, by long division
\* over the 8 bytes. A value used more than once is bound by CHOOSE, which
\* computes it once, as a `let` of the code does. signed = FALSE: u64 division. signed = TRUE:
\* i64::div_euclid and i64::rem_euclid, the quotient rounded down and the
\* remainder never negative.
div_rem(b, d, signed) ==
    LET \* the magnitude's bytes divided, most significant first
        divide(by) ==
            LET r8 == by[8] % d
                r7 == (r8 * 256 + by[7]) % d
                r6 == (r7 * 256 + by[6]) % d
                r5 == (r6 * 256 + by[5]) % d
                r4 == (r5 * 256 + by[4]) % d
                r3 == (r4 * 256 + by[3]) % d
                r2 == (r3 * 256 + by[2]) % d
                r1 == (r2 * 256 + by[1]) % d
            IN  [q |-> FromLeBytes64(<<(r2 * 256 + by[1]) \div d, (r3 * 256 + by[2]) \div d,
                                      (r4 * 256 + by[3]) \div d, (r5 * 256 + by[4]) \div d,
                                      (r6 * 256 + by[5]) \div d, (r7 * 256 + by[6]) \div d,
                                      (r8 * 256 + by[7]) \div d, by[8] \div d>>),
                 r |-> r1]
        of_bits(bits) ==
            LET neg == signed /\ bits[64] = 1
                rounded(m) ==
                    IF ~neg THEN m
                    ELSE IF m.r = 0 THEN [q |-> <<>> \o Neg64(m.q), r |-> 0]
                    ELSE [q |-> <<>> \o Neg64(<<>> \o Inc64(m.q)), r |-> d - m.r]
                of_bytes(by) == CHOOSE r \in {rounded(v) : v \in {divide(by)}} : TRUE
            IN  CHOOSE r \in {of_bytes(v) : v \in {<<>> \o LeBytes64(IF neg THEN Neg64(bits) ELSE bits)}} : TRUE
    IN  CHOOSE r \in {of_bits(v) : v \in {<<>> \o b}} : TRUE

\* the value of a 64-bit pattern below 2^30
low_value(b) ==
    LET of_bytes(by) == by[1] + 256 * by[2] + 65536 * by[3] + 16777216 * by[4]
        of_bits(bits) == CHOOSE r \in {of_bytes(v) : v \in {<<>> \o LeBytes64(bits)}} : TRUE
    IN  CHOOSE r \in {of_bits(v) : v \in {<<>> \o b}} : TRUE

\* format!("{:0width$}") of an integer: the sign counts in the width
fmt_zero_padded(n, width) ==
    LET padded(digits) == PadZeros(digits, width)
        padded_signed(digits) == <<"-">> \o PadZeros(digits, width - 1)
        of_value(v) ==
            IF v < 0 THEN CHOOSE r \in {padded_signed(t) : t \in {NatToString(0 - v)}} : TRUE
            ELSE CHOOSE r \in {padded(t) : t \in {NatToString(v)}} : TRUE
    IN  CHOOSE r \in {of_value(v) : v \in {n}} : TRUE

\* the era by a division that rounds toward zero
unix_days_to_iso_truncating(unix_days) ==
    LET tdiv(a, b) == IF a >= 0 THEN a \div b ELSE 0 - ((0 - a) \div b)
        days == unix_days + 719468
        era == tdiv(days, 146097)
        doe == days - era * 146097
        yoe == (doe - doe \div 1460 + doe \div 36524 - doe \div 146096) \div 365
        y == yoe + era * 400
        doy == doe - (365 * yoe + yoe \div 4 - yoe \div 100)
        mp == (5 * doy + 2) \div 153
        d == doy - (153 * mp + 2) \div 5 + 1
        m == IF mp < 10 THEN mp + 3 ELSE mp - 9
        y1 == IF m <= 2 THEN y + 1 ELSE y
    IN  fmt_zero_padded(y1, 4) \o <<"-">> \o fmt_zero_padded(m, 2)
        \o <<"-">> \o fmt_zero_padded(d, 2)

\* for unix_days + 719468 within i32
unix_days_to_iso(unix_days) ==
    LET \* i32 division truncates toward zero
        tdiv(a, b) == IF a >= 0 THEN a \div b ELSE 0 - ((0 - a) \div b)
        days == unix_days + 719468
        era == tdiv(IF days >= 0 THEN days ELSE days - 146096, 146097)
        doe == days - era * 146097
        yoe == (doe - doe \div 1460 + doe \div 36524 - doe \div 146096) \div 365
        y == yoe + era * 400
        doy == doe - (365 * yoe + yoe \div 4 - yoe \div 100)
        mp == (5 * doy + 2) \div 153
        d == doy - (153 * mp + 2) \div 5 + 1
        m == IF mp < 10 THEN mp + 3 ELSE mp - 9
        y1 == IF m <= 2 THEN y + 1 ELSE y
    IN  fmt_zero_padded(y1, 4) \o <<"-">> \o fmt_zero_padded(m, 2)
        \o <<"-">> \o fmt_zero_padded(d, 2)

\* the fraction rounded to the nearest 100 ns
nanos_to_time_str_rounding(nanos) ==
    LET t1 == div_rem(nanos, 1000, FALSE)
        t2 == div_rem(t1.q, 1000, FALSE)
        t3 == div_rem(t2.q, 1000, FALSE)
        frac == t1.r + 1000 * t2.r + 1000000 * t3.r
        hs == div_rem(t3.q, 3600, FALSE)
        hms == fmt_zero_padded(low_value(hs.q), 2) \o <<":">>
               \o fmt_zero_padded(hs.r \div 60, 2) \o <<":">> \o fmt_zero_padded(hs.r % 60, 2)
    IN  IF frac = 0 THEN hms
        ELSE hms \o <<".">> \o fmt_zero_padded((frac + 50) \div 100, 7)

\* nanos: the u64 as its bit pattern
nanos_to_time_str(nanos) ==
    LET \* nanos / 1_000_000_000 and nanos % 1_000_000_000, three digits at a time
        text(t1, t2, t3, hs) ==
            LET frac == t1.r + 1000 * t2.r + 1000000 * t3.r
                \* hours: below 2^30 for every u64
                h == low_value(hs.q)
                m == hs.r \div 60
                sec == hs.r % 60
                hms == fmt_zero_padded(h, 2) \o <<":">> \o fmt_zero_padded(m, 2)
                       \o <<":">> \o fmt_zero_padded(sec, 2)
            IN  IF frac = 0 THEN hms
                ELSE hms \o <<".">> \o fmt_zero_padded(frac \div 100, 7)
        with3(t1, t2, t3) ==
            CHOOSE r \in {text(t1, t2, t3, hs) : hs \in {div_rem(t3.q, 3600, FALSE)}} : TRUE
        with2(t1, t2) ==
            CHOOSE r \in {with3(t1, t2, t3) : t3 \in {div_rem(t2.q, 1000, FALSE)}} : TRUE
        with1(t1) == CHOOSE r \in {with2(t1, t2) : t2 \in {div_rem(t1.q, 1000, FALSE)}} : TRUE
    IN  CHOOSE r \in {with1(t1) : t1 \in {div_rem(nanos, 1000, FALSE)}} : TRUE

\* the days and the time of day taken from the magnitude of the count
micros_to_iso_toward_zero(micros) ==
    LET a == div_rem(unsigned_abs(micros), 1000000, FALSE)
        b == div_rem(a.q, 86400, FALSE)
        days == IF micros[64] = 1 THEN 0 - low_value(b.q) ELSE low_value(b.q)
        date == CHOOSE r \in {unix_days_to_iso(v) : v \in {days}} : TRUE
        dhms == date \o <<"T">> \o fmt_zero_padded(b.r \div 3600, 2) \o <<":">>
                \o fmt_zero_padded((b.r % 3600) \div 60, 2)
                \o <<":">> \o fmt_zero_padded(b.r % 60, 2)
    IN  IF a.r = 0 THEN dhms
        ELSE dhms \o <<".">> \o fmt_zero_padded(a.r, 6)

\* micros: the i64 as its bit pattern
micros_to_iso(micros) ==
    LET \* a: total_secs and frac; b: days and day_secs
        text(a, b) ==
            LET frac == a.r
                \* `as i32`: the days of every i64 are within 2^30 of zero
                days == IF b.q[64] = 1 THEN 0 - low_value(Neg64(b.q)) ELSE low_value(b.q)
                day_secs == b.r
                date == CHOOSE r \in {unix_days_to_iso(v) : v \in {days}} : TRUE
                h == day_secs \div 3600
                m == (day_secs % 3600) \div 60
                sec == day_secs % 60
                dhms == date \o <<"T">> \o fmt_zero_padded(h, 2) \o <<":">>
                        \o fmt_zero_padded(m, 2) \o <<":">> \o fmt_zero_padded(sec, 2)
            IN  IF frac = 0 THEN dhms
                ELSE dhms \o <<".">> \o fmt_zero_padded(frac, 6)
        with_secs(a) == CHOOSE r \in {text(a, b) : b \in {div_rem(a.q, 86400, TRUE)}} : TRUE
    IN  CHOOSE r \in {with_secs(a) : a \in {div_rem(micros, 1000000, TRUE)}} : TRUE

\* the sign of the offset left out of the choice of '+' or '-'
micros_offset_to_iso_plus_only(micros, offset_minutes) ==
    LET base == micros_to_iso(micros) IN
    IF offset_minutes = 0 THEN base \o <<"Z">>
    ELSE LET abs == IF offset_minutes < 0 THEN 0 - offset_minutes ELSE offset_minutes
         IN  base \o <<"+">> \o fmt_zero_padded(abs \div 60, 2) \o <<":">>
             \o fmt_zero_padded(abs % 60, 2)

\* offset_minutes: an i16
micros_offset_to_iso(micros, offset_minutes) ==
    LET base == micros_to_iso(micros) IN
    IF offset_minutes = 0 THEN base \o <<"Z">>
    ELSE LET sign == IF offset_minutes >= 0 THEN "+" ELSE "-"
             abs == IF offset_minutes < 0 THEN 0 - offset_minutes ELSE offset_minutes
         IN  base \o <<sign>> \o fmt_zero_padded(abs \div 60, 2) \o <<":">>
             \o fmt_zero_padded(abs % 60, 2)

(***************************************************************************)
(* uuid::Uuid::from_bytes(v).to_string(): lowercase hex, 8-4-4-4-12.       *)
(***************************************************************************)
RECURSIVE GuidHex(_, _)
GuidHex(v, k) ==
    LET HexLower == <<"0", "1", "2", "3", "4", "5", "6", "7", "8", "9",
                      "a", "b", "c", "d", "e", "f">>
    IN  IF k > Len(v) THEN <<>>
        ELSE (IF k \in {5, 7, 9, 11} THEN <<"-">> ELSE <<>>)
             \o <<HexLower[(v[k] \div 16) + 1], HexLower[(v[k] % 16) + 1]>>
             \o GuidHex(v, k + 1)

uuid_to_string(v) == GuidHex(v, 1)

(***************************************************************************)
(* The type tag of a wire column type.                                     *)
(***************************************************************************)
\* the variants of ColumnType, which the match of col_type_id lists in full
ColumnTypes ==
    {"Null", "Bit", "Bitn", "Int1", "Int2", "Int4", "Int8", "Intn", "Float4", "Float8",
     "Floatn", "Datetime", "Datetime2", "Datetime4", "Datetimen", "DatetimeOffsetn",
     "Daten", "Timen", "Decimaln", "Numericn", "Guid", "NVarchar", "NChar", "NText",
     "BigVarChar", "BigChar", "Text", "BigVarBin", "BigBinary", "Image", "Xml",
     "Money", "Money4", "Udt", "SSVariant"}

\* the tags with Intn given the tag of Int4
col_type_id_intn_as_int4(ct) ==
    CASE ct = "Null" -> 0
      [] ct \in {"Bit", "Bitn"} -> 1
      [] ct = "Int1" -> 2
      [] ct = "Int2" -> 3
      [] ct \in {"Int4", "Intn"} -> 4
      [] ct = "Int8" -> 5
      [] ct = "Float4" -> 7
      [] ct = "Float8" -> 8
      [] ct = "Floatn" -> 9
      [] ct \in {"Datetime", "Datetime2", "Datetime4", "Datetimen"} -> 10
      [] ct = "DatetimeOffsetn" -> 11
      [] ct = "Daten" -> 12
      [] ct = "Timen" -> 13
      [] ct \in {"Decimaln", "Numericn"} -> 14
      [] ct = "Guid" -> 15
      [] ct \in {"NVarchar", "NChar", "NText"} -> 16
      [] ct \in {"BigVarChar", "BigChar", "Text"} -> 17
      [] ct \in {"BigVarBin", "BigBinary", "Image"} -> 18
      [] ct = "Xml" -> 19
      [] ct \in {"Money", "Money4"} -> 20
      [] ct = "Udt" -> 21
      [] ct = "SSVariant" -> 22

col_type_id(ct) ==
    CASE ct = "Null" -> 0
      [] ct \in {"Bit", "Bitn"} -> 1
      [] ct = "Int1" -> 2
      [] ct = "Int2" -> 3
      [] ct = "Int4" -> 4
      [] ct = "Int8" -> 5
      [] ct = "Intn" -> 6
      [] ct = "Float4" -> 7
      [] ct = "Float8" -> 8
      [] ct = "Floatn" -> 9
      [] ct \in {"Datetime", "Datetime2", "Datetime4", "Datetimen"} -> 10
      [] ct = "DatetimeOffsetn" -> 11
      [] ct = "Daten" -> 12
      [] ct = "Timen" -> 13
      [] ct \in {"Decimaln", "Numericn"} -> 14
      [] ct = "Guid" -> 15
      [] ct \in {"NVarchar", "NChar", "NText"} -> 16
      [] ct \in {"BigVarChar", "BigChar", "Text"} -> 17
      [] ct \in {"BigVarBin", "BigBinary", "Image"} -> 18
      [] ct = "Xml" -> 19
      [] ct \in {"Money", "Money4"} -> 20
      [] ct = "Udt" -> 21
      [] ct = "SSVariant" -> 22

\* the name table, indexed by the tag (COL_TYPE_NAMES[t] is entry t + 1 here)
COL_TYPE_NAMES ==
    <<"null", "bit", "tinyint", "smallint", "int", "bigint", "int", "real", "float",
      "float", "datetime", "datetimeoffset", "date", "time", "decimal",
      "uniqueidentifier", "nvarchar", "varchar", "varbinary", "xml", "money", "udt",
      "sql_variant">>

(***************************************************************************)
(* FastRowCollector: the text-shaped writes and encode.                    *)
(***************************************************************************)
Fast_write_u8(w, v) ==
    [w EXCEPT !.cell_buf = Append(@, TAG_F64) \o LeBytes64(i64_as_f64(I64Bits(v)))]

Fast_write_i16(w, v) ==
    [w EXCEPT !.cell_buf = Append(@, TAG_F64) \o LeBytes64(i64_as_f64(I64Bits(v)))]

\* an f64 is its 64-bit pattern
Fast_write_f64(w, v) ==
    [w EXCEPT !.cell_buf = Append(@, TAG_F64) \o LeBytes64(v)]

Fast_write_guid(w, v) ==
    LET r == intern_string(w, uuid_to_string(v)) IN
    [r.w EXCEPT !.cell_buf = Append(@, TAG_STRING_REF) \o LeBytes(r.idx, 4)]

Fast_write_decimal(w, value, scale) ==
    LET r == intern_string(w, decimal_to_string(value, scale)) IN
    [r.w EXCEPT !.cell_buf = Append(@, TAG_STRING_REF) \o LeBytes(r.idx, 4)]

\* the text write_date, write_time, write_datetime and write_datetimeoffset
\* render from their arguments x (both collectors call the same functions)
temporal_text(x) ==
    CASE x.kind = "date" -> unix_days_to_iso(x.unix_days)
      [] x.kind = "time" -> nanos_to_time_str(x.nanos)
      [] x.kind = "datetime" -> micros_to_iso(x.micros)
      [] x.kind = "datetimeoffset" -> micros_offset_to_iso(x.micros, x.offset_minutes)

\* the text written into the cell stream, as write_bytes writes its bytes
Fast_write_temporal_inline(w, x) ==
    LET of_text(s) ==
            [w EXCEPT !.cell_buf = Append(@, TAG_BYTES) \o LeBytes(Len(as_bytes(s)), 4)
                                    \o as_bytes(s)]
    IN  CHOOSE r \in {of_text(s) : s \in {temporal_text(x)}} : TRUE

\* write_date, write_time, write_datetime, write_datetimeoffset
Fast_write_temporal(w, x) ==
    LET of_text(s) ==
            LET r == intern_string(w, s) IN
            [r.w EXCEPT !.cell_buf = Append(@, TAG_STRING_REF) \o LeBytes(r.idx, 4)]
    IN  CHOOSE r \in {of_text(s) : s \in {temporal_text(x)}} : TRUE

RECURSIVE EncodeColumns(_)
EncodeColumns(cols) ==
    IF cols = <<>> THEN <<>>
    ELSE LET col == Head(cols) IN
         <<col_type_id(col.ty)>> \o LeBytes(Len(as_bytes(col.name)), 2)
         \o as_bytes(col.name) \o EncodeColumns(Tail(cols))

RECURSIVE EncodeStrings(_)
EncodeStrings(table) ==
    IF table = <<>> THEN <<>>
    ELSE LeBytes(Len(as_bytes(Head(table))), 4) \o as_bytes(Head(table))
         \o EncodeStrings(Tail(table))

\* header, column definitions, string table, cell data
encode(w) ==
    LeBytes(w.cols_per_row, 4) \o LeBytes(w.row_count, 4)
    \o LeBytes(Len(w.string_table), 4) \o LeBytes64(I64Bits(w.rows_affected))
    \o EncodeColumns(w.columns) \o EncodeStrings(w.string_table) \o w.cell_buf

(***************************************************************************)
(* The inputs the decoder draws from.                                      *)
(***************************************************************************)
ColA == [name |-> <<"i", "d">>, ty |-> "Int8"]

\* the values around the 2^53 boundary and the ends of the i64 range
I64Boundary ==
    {I64Bits(0), I64Bits(1), I64Bits(-1), LowOnes(53), Pow2Bits(53),
     Inc64(Pow2Bits(53)), Inc64(Inc64(Pow2Bits(53))), Inc64(Inc64(Inc64(Pow2Bits(53)))),
     Neg64(LowOnes(53)), Neg64(Pow2Bits(53)), Neg64(Inc64(Pow2Bits(53))),
     Pow2Bits(54), Inc64(Pow2Bits(62)), LowOnes(63), Neg64(LowOnes(63)), Pow2Bits(63)}

\* 1.5 as an f64
F64OneAndHalf == [k \in 1..64 |-> IF k \in {52} \cup (53..62) THEN 1 ELSE 0]

\* the arguments of the events: column lists, one i64 of each tag, 1.5 as an
\* f32, texts, byte strings, a guid, decimals, a date, a time, a datetime and
\* a datetimeoffset, and the affected-row counts of the completion event
Inputs ==
    [columns |-> {<<>>, <<ColA>>,
                  <<ColA, [name |-> <<"n", "U+00E9">>, ty |-> "NVarchar"]>>},
     i64 |-> {I64Bits(-1), Pow2Bits(63)},
     f32 |-> {[k \in 1..32 |-> IF k \in {23} \cup (24..30) THEN 1 ELSE 0]},
     f64 |-> {F64OneAndHalf},
     str |-> {<<>>, <<"1", ".", "5">>, <<"U+00E9">>},
     bytes |-> {<<>>, <<0, 255>>},
     guid |-> {<<0, 1, 2, 3, 4, 5, 6, 7, 8, 9, 10, 171, 205, 239, 254, 255>>},
     decimal |-> {[value |-> 15, scale |-> 1], [value |-> -5, scale |-> 2],
                  [value |-> 7, scale |-> 0]},
     temporal |-> {[kind |-> "date", unix_days |-> -1],
                   [kind |-> "time", nanos |-> NatBits(1999999999)],
                   [kind |-> "datetime", micros |-> I64Bits(-1)],
                   [kind |-> "datetimeoffset", micros |-> Zero64, offset_minutes |-> -330]},
     rows |-> {0, 1, 3}]

(***************************************************************************)
(* The arguments of the text-shaped writes whose texts are examined: each  *)
(* is a record of the handler's arguments, and with a 64-bit count the     *)
(* parts the count was put together from: the day (rounded down), the      *)
(* second of the day and the fraction of the second.                       *)
(***************************************************************************)
TypeInputs ==
    LET \* b * c + add for a 64-bit pattern b, c <= 1000 and add < 2^30
        MulAdd(b, c, add) ==
            LET of_bytes(by) ==
                    LET t1 == by[1] * c + add
                        t2 == by[2] * c + t1 \div 256
                        t3 == by[3] * c + t2 \div 256
                        t4 == by[4] * c + t3 \div 256
                        t5 == by[5] * c + t4 \div 256
                        t6 == by[6] * c + t5 \div 256
                        t7 == by[7] * c + t6 \div 256
                        t8 == by[8] * c + t7 \div 256
                    IN  FromLeBytes64(<<t1 % 256, t2 % 256, t3 % 256, t4 % 256,
                                        t5 % 256, t6 % 256, t7 % 256, t8 % 256>>)
            IN  CHOOSE r \in {of_bytes(v) : v \in {<<>> \o LeBytes64(b)}} : TRUE
        \* secs * 10^9 + frac, frac in nanoseconds
        Nanos(secs, frac) ==
            MulAdd(MulAdd(MulAdd(NatBits(secs), 1000, frac \div 1000000),
                          1000, (frac \div 1000) % 1000), 1000, frac % 1000)
        \* (day * 86400 + secs) * 10^6 + frac for day >= 0, frac in microseconds
        Micros(day, secs, frac) ==
            MulAdd(MulAdd(MulAdd(MulAdd(NatBits(day), 864, 0), 100, secs),
                          1000, frac \div 1000), 1000, frac % 1000)
        \* the same for any day: a negative count is minus what is missing
        \* from it to zero
        SignedMicros(day, secs, frac) ==
            IF day >= 0 THEN Micros(day, secs, frac)
            ELSE IF secs = 0 /\ frac = 0 THEN <<>> \o Neg64(Micros(0 - day, 0, 0))
            ELSE IF frac > 0
                 THEN <<>> \o Neg64(Micros(0 - day - 1, 86399 - secs, 1000000 - frac))
            ELSE <<>> \o Neg64(Micros(0 - day - 1, 86400 - secs, 0))
        Instants ==
            {[micros |-> SignedMicros(p[1], p[2], p[3]), day |-> p[1], secs |-> p[2],
              frac |-> p[3]] :
                p \in {0, -1, 1, 11016, -719529, 106751990} \X {0, 3661, 86399}
                        \X {0, 1, 999999}}
            \cup \* i64::MIN and i64::MAX
            {[micros |-> Pow2Bits(63), day |-> -106751992, secs |-> 71945, frac |-> 224192],
             [micros |-> LowOnes(63), day |-> 106751991, secs |-> 14454, frac |-> 775807]}
        \* around the epoch, the ends of the months of 1970, the leap days, the
        \* century years and the years 1 and 0
        Days ==
            UNION {(c - 1)..(c + 1) :
                      c \in {0, 30, 58, 89, 119, 150, 180, 211, 242, 272, 303, 333, 364}}
            \cup
            UNION {(c - 2)..(c + 2) :
                      c \in {789, -672, -25509, 11016, 47540, -135081, 10956,
                              -719162, -719469, -719528}}
    IN  {[kind |-> "decimal", value |-> p[1], scale |-> p[2]] :
            p \in {0, 5, -5, 7, -1, 10, -10, 99, 100, -500, 12345, -12345,
                   2147483647, -2147483647} \X {0, 1, 2, 3, 5, 9}}
        \cup {[kind |-> "date", unix_days |-> d] : d \in Days}
        \cup {[kind |-> "time", nanos |-> Nanos(p[1], p[2]), secs |-> p[1], frac |-> p[2]] :
                p \in {0, 59, 3600, 86399}
                        \X {0, 1, 99, 100, 123456789, 999999899, 999999950, 999999999}}
        \cup {[kind |-> "datetime", micros |-> x.micros, day |-> x.day, secs |-> x.secs,
               frac |-> x.frac] : x \in Instants}
        \cup {[kind |-> "datetimeoffset", micros |-> x.micros, day |-> x.day,
               secs |-> x.secs, frac |-> x.frac, offset_minutes |-> o] :
                x \in {y \in Instants : y.day \in {0, -1} /\ y.secs = 86399 /\ y.frac # 1},
                o \in {0, -330, 330, 1, -1, 59, 60, 840, -840, 32767, -32768}}

(***************************************************************************)
(* JsValueWrapper: the boxed cell value. An I64 holds an integer, an F64    *)
(* its 64-bit pattern, a Str its characters, a Bytes its bytes.            *)
(***************************************************************************)
JsNull == [k |-> "Null"]
JsBool(v) == [k |-> "Bool", v |-> v]
JsI64(v) == [k |-> "I64", v |-> v]
JsF64(v) == [k |-> "F64", v |-> v]
JsStr(v) == [k |-> "Str", v |-> v]
JsBytes(v) == [k |-> "Bytes", v |-> v]

\* `v as f64` for an f32 given as its 32-bit pattern: exact widening
f32_as_f64(b) ==
    LET ex == b[24] + 2 * b[25] + 4 * b[26] + 8 * b[27] + 16 * b[28] + 32 * b[29]
              + 64 * b[30] + 128 * b[31]
        fracZero == \A j \in 1..23 : b[j] = 0
        \* a subnormal f32: the highest set fraction bit, 0..22
        h == CHOOSE t \in 0..22 : b[t + 1] = 1 /\ \A j \in (t + 2)..23 : b[j] = 0
        ex64 == IF ex = 255 THEN 2047
                ELSE IF ex = 0 THEN (IF fracZero THEN 0 ELSE h - 149 + 1023)
                ELSE ex - 127 + 1023
    IN  [k \in 1..64 |->
            IF k = 64 THEN b[32]
            ELSE IF k >= 53 THEN (ex64 \div (2 ^ (k - 53))) % 2
            ELSE IF ex = 0 /\ ~fracZero
                 THEN (IF k - 52 + h >= 1 /\ k - 52 + h <= h THEN b[k - 52 + h] ELSE 0)
            ELSE (IF k >= 30 THEN b[k - 29] ELSE 0)]

(***************************************************************************)
(* JsRowCollector: the boxing RowWriter.                                   *)
(***************************************************************************)
JsRowCollector_default ==
    [columns |-> <<>>, values |-> <<>>, cols_per_row |-> 0, rows_affected |-> 0]

Js_on_metadata(w, columns) ==
    [w EXCEPT !.columns = columns, !.cols_per_row = Len(columns)]

Js_write_null(w) == [w EXCEPT !.values = Append(@, JsNull)]
Js_write_bool(w, v) == [w EXCEPT !.values = Append(@, JsBool(v))]
Js_write_u8(w, v) == [w EXCEPT !.values = Append(@, JsI64(v))]
Js_write_i16(w, v) == [w EXCEPT !.values = Append(@, JsI64(v))]
Js_write_i32(w, v) == [w EXCEPT !.values = Append(@, JsI64(v))]
Js_write_i64(w, v) == [w EXCEPT !.values = Append(@, JsI64(v))]
Js_write_f32(w, v) == [w EXCEPT !.values = Append(@, JsF64(f32_as_f64(v)))]
Js_write_f64(w, v) == [w EXCEPT !.values = Append(@, JsF64(v))]
Js_write_str(w, v) == [w EXCEPT !.values = Append(@, JsStr(v))]
Js_write_bytes(w, v) == [w EXCEPT !.values = Append(@, JsBytes(v))]
Js_write_guid(w, v) == [w EXCEPT !.values = Append(@, JsStr(uuid_to_string(v)))]
Js_write_decimal(w, value, scale) ==
    [w EXCEPT !.values = Append(@, JsStr(decimal_to_string(value, scale)))]
\* write_date, write_time, write_datetime, write_datetimeoffset
Js_write_temporal(w, x) == [w EXCEPT !.values = Append(@, JsStr(temporal_text(x)))]
Js_on_done(w, rows) == [w EXCEPT !.rows_affected = rows]

col_type_name(ct) ==
    CASE ct = "Null" -> "null"
      [] ct \in {"Bit", "Bitn"} -> "bit"
      [] ct = "Int1" -> "tinyint"
      [] ct = "Int2" -> "smallint"
      [] ct = "Int4" -> "int"
      [] ct = "Int8" -> "bigint"
      [] ct = "Intn" -> "int"
      [] ct = "Float4" -> "real"
      [] ct = "Float8" -> "float"
      [] ct = "Floatn" -> "float"
      [] ct \in {"Datetime", "Datetime2", "Datetime4", "Datetimen"} -> "datetime"
      [] ct = "DatetimeOffsetn" -> "datetimeoffset"
      [] ct = "Daten" -> "date"
      [] ct = "Timen" -> "time"
      [] ct \in {"Decimaln", "Numericn"} -> "decimal"
      [] ct = "Guid" -> "uniqueidentifier"
      [] ct \in {"NVarchar", "NChar", "NText"} -> "nvarchar"
      [] ct \in {"BigVarChar", "BigChar", "Text"} -> "varchar"
      [] ct \in {"BigVarBin", "BigBinary", "Image"} -> "varbinary"
      [] ct = "Xml" -> "xml"
      [] ct \in {"Money", "Money4"} -> "money"
      [] ct = "Udt" -> "udt"
      [] ct = "SSVariant" -> "sql_variant"

(***************************************************************************)
(* Client::query after batch_into returned Ok: the rows cut out of the     *)
(* flat buffer. query_rows_index is the buffer index of row r, column c    *)
(* (both counted from 0).                                                  *)
(***************************************************************************)
query_num_rows(w) ==
    IF w.cols_per_row > 0 THEN Len(w.values) \div w.cols_per_row ELSE 0

\* the index with rows and columns swapped
query_rows_index_transposed(w, r, c) == c * query_num_rows(w) + r

query_rows_index(w, r, c) == r * w.cols_per_row + c

query_result(w) ==
    [ok |-> TRUE,
     rows |-> [r \in 1..query_num_rows(w) |->
                [c \in 1..w.cols_per_row |->
                    w.values[query_rows_index(w, r - 1, c - 1) + 1]]],
     columns |-> [k \in 1..Len(w.columns) |->
                    [name |-> w.columns[k].name, type |-> col_type_name(w.columns[k].ty)]],
     row_count |-> query_num_rows(w)]

\* std::mem::replace(&mut writer.values[idx], JsValueWrapper::Null)
query_taken(w) ==
    [w EXCEPT !.values =
        [k \in 1..Len(w.values) |->
            IF \E r \in 0..(query_num_rows(w) - 1), c \in 0..(w.cols_per_row - 1) :
                    k = query_rows_index(w, r, c) + 1
            THEN JsNull ELSE w.values[k]]]

NoResult == [ok |-> "none"]
NoBuf == <<-1>>
NoTask == 0

(***************************************************************************)
(* The parts of the state a specification leaves alone.                    *)
(***************************************************************************)
FastIdle == fast = FastRowCollector_default /\ buf = NoBuf
JsIdle == js = JsRowCollector_default /\ qres = NoResult
SubstIdle == sql = <<>> /\ params = <<>> /\ i = 0 /\ result = <<>> /\ ret = NoResult
ClientIdle == inner = "None" /\ guard = NoTask /\ task = <<>>

(***************************************************************************)
(* The decoder driving a FastRowCollector (batch_into, called by           *)
(* query_raw), then query_raw's encode. dec.contract records whether the   *)
(* events so far follow the RowWriter order: metadata once, then the cell  *)
(* writes, then completion.                                                *)
(***************************************************************************)
\* limit: the most cell writes this decoder run sends
\* arg: the arguments of the last cell write, where a specification keeps them
DecInit(limit) ==
    [metas |-> 0, cells |-> 0, done |-> FALSE, contract |-> TRUE, limit |-> limit,
     arg |-> [kind |-> "none"]]

\* the decoder after sending one event
DecEvent(kind) ==
    CASE kind = "metadata" ->
            [dec EXCEPT !.metas = @ + 1, !.contract = @ /\ dec.metas = 0 /\ dec.cells = 0]
      [] kind = "write" ->
            [dec EXCEPT !.cells = @ + 1, !.contract = @ /\ dec.metas = 1]
      [] kind = "done" ->
            [dec EXCEPT !.done = TRUE, !.contract = @ /\ dec.metas = 1]

FastStreaming == buf = NoBuf /\ ~dec.done

FastOnMetadata(columns) ==
    /\ FastStreaming
    /\ dec.metas < MaxMetas
    /\ fast' = Fast_on_metadata(fast, columns)
    /\ dec' = DecEvent("metadata")
    /\ UNCHANGED <<buf, jsVars, substVars, clientVars>>

\* one cell write: w is the collector after the write_* the decoder called
FastWrite(w) ==
    /\ FastStreaming
    /\ dec.cells < dec.limit
    /\ fast' = w
    /\ dec' = DecEvent("write")
    /\ UNCHANGED <<buf, jsVars, substVars, clientVars>>

FastOnDone(rows) ==
    /\ FastStreaming
    /\ fast' = Fast_on_done(fast, rows)
    /\ dec' = DecEvent("done")
    /\ UNCHANGED <<buf, jsVars, substVars, clientVars>>

\* query_raw after batch_into returned Ok: Ok(writer.encode().into())
FastEncode ==
    /\ buf = NoBuf
    /\ buf' = encode(fast)
    /\ UNCHANGED <<fast, dec, jsVars, substVars, clientVars>>

InitFast(limit) ==
    /\ fast = FastRowCollector_default
    /\ dec = DecInit(limit)
    /\ buf = NoBuf
    /\ JsIdle
    /\ SubstIdle
    /\ ClientIdle

NextFast ==
    \/ \E columns \in Inputs.columns : FastOnMetadata(columns)
    \/ FastWrite(Fast_write_null(fast))
    \/ \E v \in BOOLEAN : FastWrite(Fast_write_bool(fast, v))
    \/ \E v \in {255} : FastWrite(Fast_write_u8(fast, v))
    \/ \E v \in {-1} : FastWrite(Fast_write_i16(fast, v))
    \/ \E v \in {-1, 5} : FastWrite(Fast_write_i32(fast, v))
    \/ \E v \in Inputs.i64 : FastWrite(Fast_write_i64(fast, v))
    \/ \E v \in Inputs.f64 : FastWrite(Fast_write_f64(fast, v))
    \/ \E v \in Inputs.str : FastWrite(Fast_write_str(fast, v))
    \/ \E v \in Inputs.bytes : FastWrite(Fast_write_bytes(fast, v))
    \/ \E v \in Inputs.guid : FastWrite(Fast_write_guid(fast, v))
    \/ \E d \in Inputs.decimal : FastWrite(Fast_write_decimal(fast, d.value, d.scale))
    \/ \E rows \in Inputs.rows : FastOnDone(rows)
    \/ FastEncode

SpecFast == InitFast(MaxFastCells) /\ [][NextFast]_vars

(***************************************************************************)
(* The decoder writing only integer cells, the i64 values taken around the *)
(* 2^53 boundary.                                                          *)
(***************************************************************************)
NextFastNum ==
    \/ \E v \in {0, 255} : FastWrite(Fast_write_u8(fast, v))
    \/ \E v \in {-1} : FastWrite(Fast_write_i16(fast, v))
    \/ \E v \in {5} : FastWrite(Fast_write_i32(fast, v))
    \/ \E v \in I64Boundary : FastWrite(Fast_write_i64(fast, v))
    \/ FastEncode

SpecFastNum == InitFast(MaxFastCells) /\ [][NextFastNum]_vars

(***************************************************************************)
(* The decoder writing null and text-shaped cells, every text-shaped       *)
(* handler in use.                                                         *)
(***************************************************************************)
\* one text-shaped cell write, the decoder keeping the arguments it sent
FastWriteText(x) ==
    /\ FastStreaming
    /\ dec.cells < dec.limit
    /\ fast' = CASE x.kind = "str" -> Fast_write_str(fast, x.v)
                 [] x.kind = "guid" -> Fast_write_guid(fast, x.v)
                 [] x.kind = "decimal" -> Fast_write_decimal(fast, x.value, x.scale)
                 [] OTHER -> Fast_write_temporal(fast, x)
    /\ dec' = [DecEvent("write") EXCEPT !.arg = x]
    /\ UNCHANGED <<buf, jsVars, substVars, clientVars>>

NextFastText ==
    \/ \E columns \in {<<ColA>>} : FastOnMetadata(columns)
    \/ FastWrite(Fast_write_null(fast))
    \/ \E v \in Inputs.str : FastWriteText([kind |-> "str", v |-> v])
    \/ \E v \in Inputs.guid : FastWriteText([kind |-> "guid", v |-> v])
    \/ \E d \in Inputs.decimal :
          FastWriteText([kind |-> "decimal", value |-> d.value, scale |-> d.scale])
    \/ \E x \in Inputs.temporal : FastWriteText(x)

SpecFastText == InitFast(MaxTextCells) /\ [][NextFastText]_vars

(***************************************************************************)
(* Reading a cell back, as a consumer of the buffer does.                  *)
(***************************************************************************)
\* the 64-bit pattern of 8 little-endian bytes
BitsOfBytes(bytes) ==
    [k \in 1..64 |-> (bytes[((k - 1) \div 8) + 1] \div (2 ^ ((k - 1) % 8))) % 2]

NotAnInteger == <<"not an integer">>

\* the integer an IEEE-754 double holds, as an i64, when it is one
IntegerOfDouble(b) ==
    LET ex == b[53] + 2 * b[54] + 4 * b[55] + 8 * b[56] + 16 * b[57] + 32 * b[58]
              + 64 * b[59] + 128 * b[60] + 256 * b[61] + 512 * b[62] + 1024 * b[63]
        e == ex - 1023
        sig == [j \in 1..53 |-> IF j = 53 THEN 1 ELSE b[j]]
        mag == [k \in 1..64 |->
                  IF k - e + 52 >= 1 /\ k - e + 52 <= 53 THEN sig[k - e + 52] ELSE 0]
    IN  IF ex = 0 /\ \A j \in 1..52 : b[j] = 0 THEN Zero64
        ELSE IF ex = 0 \/ e < 0 \/ e > 63 THEN NotAnInteger
        ELSE IF \E j \in 1..53 : j <= 52 - e /\ sig[j] = 1 THEN NotAnInteger
        ELSE IF b[64] = 0 THEN (IF mag[64] = 1 THEN NotAnInteger ELSE mag)
        ELSE IF mag[64] = 1 /\ mag # Pow2Bits(63) THEN NotAnInteger
        ELSE Neg64(mag)

\* the integer a consumer reads from a number cell
DecodedInteger(tag, payload) ==
    IF tag = TAG_BIGINT THEN BitsOfBytes(payload)
    ELSE IF tag = TAG_F64 THEN IntegerOfDouble(BitsOfBytes(payload))
    ELSE NotAnInteger

\* signed comparison a <= b of two i64
SignedLeq(a, b) == IF a[64] # b[64] THEN a[64] = 1 ELSE U64Leq(a, b)

\* -2^53 <= v <= 2^53
InSafeRange(v) == SignedLeq(Neg64(Pow2Bits(53)), v) /\ SignedLeq(v, Pow2Bits(53))

\* the bytes a step appended to the cell buffer
Appended == SubSeq(fast'.cell_buf, Len(fast.cell_buf) + 1, Len(fast'.cell_buf))
OnlyAppends ==
    /\ Len(fast'.cell_buf) >= Len(fast.cell_buf)
    /\ SubSeq(fast'.cell_buf, 1, Len(fast.cell_buf)) = fast.cell_buf

(***************************************************************************)
(* C1: write_i64(v) appends one 9-byte cell; its tag is the double tag 3   *)
(* exactly when |v| <= 2^53 and the bigint tag 4 otherwise, and the        *)
(* integer read back from the 8 payload bytes is v.                        *)
(***************************************************************************)
C1_WriteI64Cell(v) ==
    /\ OnlyAppends
    /\ Len(Appended) = 9
    /\ Appended[1] = TAG_F64 <=> InSafeRange(v)
    /\ Appended[1] = TAG_BIGINT <=> ~InSafeRange(v)
    /\ DecodedInteger(Appended[1], SubSeq(Appended, 2, 9)) = v

C1_I64TagAndRoundTrip ==
    [][\A v \in I64Boundary : FastWrite(Fast_write_i64(fast, v)) => C1_WriteI64Cell(v)]_vars

\* i64::MIN was written as a bigint cell and 2^53 as a double cell
C1_Witness ==
    fast.cell_buf = <<4, 0, 0, 0, 0, 0, 0, 0, 128, 3, 0, 0, 0, 0, 0, 0, 64, 67>>

(***************************************************************************)
(* Reading the cell stream and the header back.                            *)
(***************************************************************************)
U32OfBytes(b) == b[1] + 256 * b[2] + 65536 * b[3] + 16777216 * b[4]

\* the length in bytes of the cell that starts at position k of the stream
CellSize(cells, k) ==
    IF cells[k] \in {TAG_NULL, TAG_FALSE, TAG_TRUE} THEN 1
    ELSE IF cells[k] \in {TAG_F64, TAG_BIGINT} THEN 9
    ELSE IF cells[k] = TAG_STRING_REF THEN 5
    ELSE 5 + U32OfBytes(SubSeq(cells, k + 1, k + 4))

\* the cells of a cell stream, each with its tag and payload
RECURSIVE ParseCells(_, _)
ParseCells(cells, k) ==
    IF k > Len(cells) THEN <<>>
    ELSE <<[tag |-> cells[k], payload |-> SubSeq(cells, k + 1, k + CellSize(cells, k) - 1)]>>
         \o ParseCells(cells, k + CellSize(cells, k))

CellsOf(w) == ParseCells(w.cell_buf, 1)

\* the string-table indexes the string_ref cells of a collector hold
StringRefs(w) ==
    LET cells == CellsOf(w) IN
    {U32OfBytes(cells[k].payload) :
        k \in {j \in 1..Len(cells) : cells[j].tag = TAG_STRING_REF}}

NoDuplicates(table) ==
    \A a, b \in 1..Len(table) : table[a] = table[b] => a = b

HeaderColCount(b) == U32OfBytes(SubSeq(b, 1, 4))
HeaderRowCount(b) == U32OfBytes(SubSeq(b, 5, 8))
HeaderStringTableLen(b) == U32OfBytes(SubSeq(b, 9, 12))

(***************************************************************************)
(* C2: a text-shaped write whose rendered content equals the content of an *)
(* earlier string cell is written with that cell's string-table index, and *)
(* the string table never holds the same content twice.                    *)
(***************************************************************************)
C2_TextWrite(s) ==
    /\ OnlyAppends
    /\ Len(Appended) = 5
    /\ Appended[1] = TAG_STRING_REF
    /\ \A j \in StringRefs(fast) :
          fast.string_table[j + 1] = s => U32OfBytes(SubSeq(Appended, 2, 5)) = j
    /\ NoDuplicates(fast'.string_table)

C2_SameContentSameIndex ==
    [][/\ \A v \in Inputs.str : FastWrite(Fast_write_str(fast, v)) => C2_TextWrite(v)
       /\ \A v \in Inputs.guid :
             FastWrite(Fast_write_guid(fast, v)) => C2_TextWrite(uuid_to_string(v))
       /\ \A d \in Inputs.decimal :
             FastWrite(Fast_write_decimal(fast, d.value, d.scale))
                => C2_TextWrite(decimal_to_string(d.value, d.scale))
      ]_vars

\* the text 1.5 was written twice and is one entry, referenced by both cells
C2_Witness ==
    /\ fast.cell_buf = <<5, 0, 0, 0, 0, 5, 0, 0, 0, 0>>
    /\ fast.string_table = <<<<"1", ".", "5">>>>

(***************************************************************************)
(* C17: across every step the string table only grows at its end, by one   *)
(* entry that it did not hold, so that the entry at an index never changes *)
(* and the k-th distinct string has index k - 1; after the step string_map *)
(* has exactly the table's entries as keys, maps each entry to its         *)
(* position, and has as many entries as the table.                         *)
(***************************************************************************)
C17_TableDense ==
    [][LET old == fast.string_table
           table == fast'.string_table
           map == fast'.string_map
       IN  /\ Len(table) >= Len(old)
           /\ SubSeq(table, 1, Len(old)) = old
           /\ table # old =>
                 /\ Len(table) = Len(old) + 1
                 /\ \A k \in 1..Len(old) : old[k] # table[Len(table)]
           /\ DOMAIN map = {table[k] : k \in 1..Len(table)}
           /\ \A k \in 1..Len(table) : map[table[k]] = k - 1
           /\ Cardinality(DOMAIN map) = Len(table)
      ]_vars

\* three text cells were written, one text twice: the table has two entries
C17_Witness ==
    /\ Len(fast.string_table) = 2
    /\ Len(CellsOf(fast)) = 3
    /\ \A k \in 1..3 : CellsOf(fast)[k].tag = TAG_STRING_REF
    /\ StringRefs(fast) = {0, 1}

(***************************************************************************)
(* C18: a text-shaped write (write_str, write_guid, write_decimal,         *)
(* write_date, write_time, write_datetime, write_datetimeoffset) appends   *)
(* five bytes, the tag 5 and an index below the length of the string table *)
(* whose entry is the text rendered for the cell; after every step each    *)
(* index in the cell stream is below the length of the table, and the      *)
(* entry an index held before the step is unchanged.                       *)
(***************************************************************************)
C18_TextCell(s) ==
    /\ OnlyAppends
    /\ Len(Appended) = 5
    /\ Appended[1] = TAG_STRING_REF
    /\ U32OfBytes(SubSeq(Appended, 2, 5)) < Len(fast'.string_table)
    /\ fast'.string_table[U32OfBytes(SubSeq(Appended, 2, 5)) + 1] = s

\* the text rendered for the arguments of a text-shaped write
C18_Text(x) ==
    CASE x.kind = "str" -> x.v
      [] x.kind = "guid" -> uuid_to_string(x.v)
      [] x.kind = "decimal" -> decimal_to_string(x.value, x.scale)
      [] OTHER -> temporal_text(x)

C18_TextCellsAreRefs ==
    [][/\ (dec'.arg.kind # "none" /\ FastWriteText(dec'.arg))
             => C18_TextCell(C18_Text(dec'.arg))
       /\ \A j \in StringRefs(fast') : j < Len(fast'.string_table)
       /\ \A j \in StringRefs(fast) : fast'.string_table[j + 1] = fast.string_table[j + 1]
      ]_vars

\* a date, a time and a datetimeoffset were written: three references, the
\* texts in the table
C18_Witness ==
    /\ dec.arg.kind = "datetimeoffset"
    /\ fast.cell_buf = <<5, 0, 0, 0, 0, 5, 1, 0, 0, 0, 5, 2, 0, 0, 0>>
    /\ fast.string_table =
          << <<"1", "9", "6", "9", "-", "1", "2", "-", "3", "1">>,
             <<"0", "0", ":", "0", "0", ":", "0", "1", ".", "9", "9", "9", "9", "9", "9", "9">>,
             <<"1", "9", "7", "0", "-", "0", "1", "-", "0", "1", "T", "0", "0", ":", "0", "0",
               ":", "0", "0", "-", "0", "5", ":", "3", "0">> >>

(***************************************************************************)
(* C9: in the buffer encode returns after metadata, writes and completion, *)
(* the header's row_count is the number of rows in the cell stream (cells  *)
(* written divided by the column count), whatever count the completion     *)
(* event carried, and string_table_len is the number of entries written.   *)
(***************************************************************************)
C9_HeaderCounts ==
    (buf # NoBuf /\ dec.contract /\ dec.done /\ fast.cols_per_row > 0
        /\ Len(CellsOf(fast)) % fast.cols_per_row = 0) =>
        /\ HeaderRowCount(buf) = Len(CellsOf(fast)) \div fast.cols_per_row
        /\ HeaderStringTableLen(buf) = Len(fast.string_table)

(***************************************************************************)
(* The decoder driving a JsRowCollector (batch_into, called by query),     *)
(* then query's conversion of the collected values.                        *)
(***************************************************************************)
JsStreaming == qres = NoResult /\ ~dec.done

JsOnMetadata(columns) ==
    /\ JsStreaming
    /\ dec.metas < MaxMetas
    /\ js' = Js_on_metadata(js, columns)
    /\ dec' = DecEvent("metadata")
    /\ UNCHANGED <<qres, fastVars, substVars, clientVars>>

\* one cell write: w is the collector after the write
JsWrite(w) ==
    /\ JsStreaming
    /\ dec.cells < dec.limit
    /\ js' = w
    /\ dec' = DecEvent("write")
    /\ UNCHANGED <<qres, fastVars, substVars, clientVars>>

JsOnDone(rows) ==
    /\ JsStreaming
    /\ js' = Js_on_done(js, rows)
    /\ dec' = DecEvent("done")
    /\ UNCHANGED <<qres, fastVars, substVars, clientVars>>

\* query after batch_into returned Ok: lines 593..629
JsQueryConvert ==
    /\ qres = NoResult
    /\ qres' = query_result(js)
    /\ js' = query_taken(js)
    /\ UNCHANGED <<dec, fastVars, substVars, clientVars>>

InitJs(limit) ==
    /\ js = JsRowCollector_default
    /\ qres = NoResult
    /\ dec = DecInit(limit)
    /\ FastIdle
    /\ SubstIdle
    /\ ClientIdle

\* every write handler, a few cells
NextJs ==
    \/ \E columns \in Inputs.columns : JsOnMetadata(columns)
    \/ JsWrite(Js_write_null(js))
    \/ \E v \in {TRUE} : JsWrite(Js_write_bool(js, v))
    \/ \E v \in {5} : JsWrite(Js_write_u8(js, v))
    \/ \E v \in {5} : JsWrite(Js_write_i16(js, v))
    \/ \E v \in {5} : JsWrite(Js_write_i32(js, v))
    \/ \E v \in {-1, 5} : JsWrite(Js_write_i64(js, v))
    \/ \E v \in Inputs.f32 : JsWrite(Js_write_f32(js, v))
    \/ \E v \in Inputs.f64 : JsWrite(Js_write_f64(js, v))
    \/ \E v \in Inputs.str : JsWrite(Js_write_str(js, v))
    \/ \E v \in Inputs.bytes : JsWrite(Js_write_bytes(js, v))
    \/ \E v \in Inputs.guid : JsWrite(Js_write_guid(js, v))
    \/ \E d \in Inputs.decimal : JsWrite(Js_write_decimal(js, d.value, d.scale))
    \/ \E rows \in Inputs.rows : JsOnDone(rows)
    \/ JsQueryConvert

SpecJs == InitJs(MaxJsCells) /\ [][NextJs]_vars

\* three kinds of cell, enough cells for several rows of several columns
NextJsRows ==
    \/ \E columns \in Inputs.columns : JsOnMetadata(columns)
    \/ JsWrite(Js_write_null(js))
    \/ \E v \in {5} : JsWrite(Js_write_i32(js, v))
    \/ \E v \in {<<"a">>} : JsWrite(Js_write_str(js, v))
    \/ \E rows \in {2} : JsOnDone(rows)
    \/ JsQueryConvert

SpecJsRows == InitJs(MaxRowCells) /\ [][NextJsRows]_vars

(***************************************************************************)
(* The decoder sending text-shaped cells to a JsRowCollector, keeping the  *)
(* arguments of the write it sent last.                                    *)
(***************************************************************************)
JsWriteArg(x) ==
    /\ JsStreaming
    /\ dec.cells < dec.limit
    /\ js' = IF x.kind = "decimal" THEN Js_write_decimal(js, x.value, x.scale)
             ELSE Js_write_temporal(js, x)
    /\ dec' = [DecEvent("write") EXCEPT !.arg = x]
    /\ UNCHANGED <<qres, fastVars, substVars, clientVars>>

NextTypes == \E x \in TypeInputs : JsWriteArg(x)

SpecTypes == InitJs(MaxTypeCells) /\ [][NextTypes]_vars

(***************************************************************************)
(* One result set of one column, of any wire type, read by a query_raw and *)
(* by a query: each call's collector gets the metadata event, query_raw    *)
(* encodes the column's tag and query returns the column's type name.      *)
(***************************************************************************)
NextColTypes ==
    \/ \E ct \in ColumnTypes : FastOnMetadata(<<[name |-> <<"c">>, ty |-> ct]>>)
    \/ \E ct \in ColumnTypes : JsOnMetadata(<<[name |-> <<"c">>, ty |-> ct]>>)
    \/ FastEncode
    \/ JsQueryConvert

SpecColTypes == InitFast(0) /\ [][NextColTypes]_vars

(***************************************************************************)
(* C24: the column type mapping is total and consistent. For a column of   *)
(* any wire type that a query_raw and a query both read, the tag in the    *)
(* buffer is in 0..22, the name table indexed by that tag gives the type   *)
(* name the query returned, and the tags of the nullable-width variants    *)
(* (6 and 9) are written for Intn and Floatn and for no other type, as     *)
(* those of int and float (4 and 8) are for Int4 and Float8.               *)
(***************************************************************************)
\* the type tag of the first column definition, which follows the 20 header bytes
C24_Tag == buf[21]

C24_TagAndNameAgree ==
    (buf # NoBuf /\ qres # NoResult /\ Len(fast.columns) = 1 /\ js.columns = fast.columns) =>
        LET ct == fast.columns[1].ty IN
        /\ C24_Tag \in 0..22
        /\ COL_TYPE_NAMES[C24_Tag + 1] = qres.columns[1].type
        /\ C24_Tag = 4 <=> ct = "Int4"
        /\ C24_Tag = 6 <=> ct = "Intn"
        /\ C24_Tag = 8 <=> ct = "Float8"
        /\ C24_Tag = 9 <=> ct = "Floatn"

\* an Intn column came out with tag 6 from query_raw and as "int" from query
C24_Witness ==
    /\ buf # NoBuf
    /\ qres # NoResult
    /\ js.columns = fast.columns
    /\ fast.columns = <<[name |-> <<"c">>, ty |-> "Intn"]>>
    /\ C24_Tag = 6
    /\ qres.columns[1].type = "int"

(***************************************************************************)
(* Reading a rendered text back: the text of the cell written last, and    *)
(* the number a run of decimal digits stands for.                          *)
(***************************************************************************)
LastText == js.values[Len(js.values)].v

Written(kind) == dec.cells > 0 /\ dec.arg.kind = kind

IsDigits(t) == \A k \in 1..Len(t) : t[k] \in {"0", "1", "2", "3", "4", "5", "6", "7", "8", "9"}

RECURSIVE TextNat(_)
TextNat(t) ==
    IF t = <<>> THEN 0
    ELSE 10 * TextNat(SubSeq(t, 1, Len(t) - 1))
         + (CHOOSE n \in 0..9 : <<"0", "1", "2", "3", "4", "5", "6", "7", "8", "9">>[n + 1]
                                    = t[Len(t)])

\* digits with no zero in front of them, the single 0 excepted
IsNumeral(t) == Len(t) >= 1 /\ IsDigits(t) /\ (Len(t) = 1 \/ t[1] # "0")

IsLeap(y) == y % 4 = 0 /\ (y % 100 # 0 \/ y % 400 = 0)

DaysIn(y, m) ==
    IF m = 2 THEN (IF IsLeap(y) THEN 29 ELSE 28)
    ELSE IF m \in {4, 6, 9, 11} THEN 30 ELSE 31

\* a text [-]Y..Y-MM-DD read as year, month and day; ok: it has that shape
ReadDate(t) ==
    LET n == Len(t)
        neg == n >= 1 /\ t[1] = "-"
        yt == SubSeq(t, IF neg THEN 2 ELSE 1, n - 6)
        mt == SubSeq(t, n - 4, n - 3)
        dt == SubSeq(t, n - 1, n)
        shaped == /\ n >= 10 /\ t[n - 2] = "-" /\ t[n - 5] = "-"
                  /\ IsDigits(yt) /\ IsDigits(mt) /\ IsDigits(dt)
    IN  IF shaped
        THEN [ok |-> TRUE, y |-> IF neg THEN 0 - TextNat(yt) ELSE TextNat(yt),
              m |-> TextNat(mt), d |-> TextNat(dt)]
        ELSE [ok |-> FALSE, y |-> 0, m |-> 0, d |-> 0]

IsDate(c) == c.ok /\ c.m \in 1..12 /\ c.d \in 1..DaysIn(c.y, c.m)

\* the day after
NextDate(c) ==
    IF c.d < DaysIn(c.y, c.m) THEN [c EXCEPT !.d = @ + 1]
    ELSE IF c.m < 12 THEN [c EXCEPT !.m = @ + 1, !.d = 1]
    ELSE [c EXCEPT !.y = @ + 1, !.m = 1, !.d = 1]

\* the days from 1970-01-01 to a date, counted year by year and month by month
DayCount(c) ==
    LET RECURSIVE before(_)
        before(m) == IF m = 1 THEN 0 ELSE before(m - 1) + DaysIn(c.y, m - 1)
    IN  365 * c.y + (c.y + 3) \div 4 - (c.y + 99) \div 100 + (c.y + 399) \div 400
        + before(c.m) + (c.d - 1) - 719528

(***************************************************************************)
(* C13: the text of a date cell written for day count d reads as a         *)
(* calendar date, the date d days from 1970-01-01 (before it for a         *)
(* negative d), and the text for d + 1 reads as the day after it; day 0 is *)
(* 1970-01-01.                                                             *)
(***************************************************************************)
C13_DateText ==
    Written("date") =>
        LET d == dec.arg.unix_days
            c == ReadDate(LastText)
        IN  /\ IsDate(c)
            /\ DayCount(c) = d
            /\ ReadDate(unix_days_to_iso(d + 1)) = NextDate(c)
            /\ d = 0 => LastText = <<"1", "9", "7", "0", "-", "0", "1", "-", "0", "1">>

\* day -1 was written as 1969-12-31
C13_Witness ==
    /\ Written("date") /\ dec.arg.unix_days = -1
    /\ LastText = <<"1", "9", "6", "9", "-", "1", "2", "-", "3", "1">>

(***************************************************************************)
(* Times of day. A text HH:MM:SS or HH:MM:SS.F..F read as the second of    *)
(* the day and the digits of the fraction; ok: it has that shape with the  *)
(* hour below 24, the minute and the second below 60.                      *)
(***************************************************************************)
ReadTime(t) ==
    LET n == Len(t)
        ht == SubSeq(t, 1, 2)
        mt == SubSeq(t, 4, 5)
        st == SubSeq(t, 7, 8)
        ft == SubSeq(t, 10, n)
        shaped == /\ n >= 8 /\ t[3] = ":" /\ t[6] = ":"
                  /\ IsDigits(ht) /\ IsDigits(mt) /\ IsDigits(st)
                  /\ TextNat(ht) < 24 /\ TextNat(mt) < 60 /\ TextNat(st) < 60
                  /\ n > 8 => (t[9] = "." /\ n >= 10 /\ IsDigits(ft))
    IN  IF shaped
        THEN [ok |-> TRUE, secs |-> 3600 * TextNat(ht) + 60 * TextNat(mt) + TextNat(st),
              frac |-> ft]
        ELSE [ok |-> FALSE, secs |-> 0, frac |-> <<>>]

\* the part of a text before its first T, and the part after it
BeforeT(t) == SubSeq(t, 1, (CHOOSE k \in 1..Len(t) : t[k] = "T" /\ \A j \in 1..(k - 1) : t[j] # "T") - 1)

AfterT(t) == SubSeq(t, Len(BeforeT(t)) + 2, Len(t))

(***************************************************************************)
(* C14: the text of a datetime cell written for a microsecond count m,     *)
(* m = (day * 86400 + secs) * 10^6 + frac with 0 <= secs < 86400 and       *)
(* 0 <= frac < 10^6 (so day is m / 86_400_000_000 rounded down), is the    *)
(* date text of day, a T, and HH:MM:SS reading as secs; a point and six    *)
(* digits reading as frac follow exactly when frac is not 0.               *)
(***************************************************************************)
C14_DatetimeText ==
    Written("datetime") =>
        LET x == dec.arg
            time == ReadTime(AfterT(LastText))
        IN  /\ \E k \in 1..Len(LastText) : LastText[k] = "T"
            /\ BeforeT(LastText) = unix_days_to_iso(x.day)
            /\ time.ok
            /\ time.secs = x.secs
            /\ IF x.frac = 0 THEN time.frac = <<>>
               ELSE Len(time.frac) = 6 /\ TextNat(time.frac) = x.frac

\* one microsecond before the epoch was written as the last microsecond of
\* the day before
C14_Witness ==
    /\ Written("datetime") /\ dec.arg.micros = LowOnes(64)
    /\ dec.arg.day = -1 /\ dec.arg.secs = 86399 /\ dec.arg.frac = 999999
    /\ LastText = <<"1", "9", "6", "9", "-", "1", "2", "-", "3", "1", "T", "2", "3", ":",
                    "5", "9", ":", "5", "9", ".", "9", "9", "9", "9", "9", "9">>

(***************************************************************************)
(* C15: the text of a datetimeoffset cell written for count x and offset o *)
(* is the datetime text of x, not shifted, followed by Z when o = 0 and    *)
(* otherwise by '+' (o > 0) or '-' (o < 0), the hours |o| div 60, a colon  *)
(* and the two-digit minutes |o| mod 60; the hours take two digits when    *)
(* they are below 100 and as many digits as they have from 100 on.         *)
(***************************************************************************)
C15_OffsetText ==
    Written("datetimeoffset") =>
        LET o == dec.arg.offset_minutes
            abs == IF o < 0 THEN 0 - o ELSE o
            base == micros_to_iso(dec.arg.micros)
            suffix == SubSeq(LastText, Len(base) + 1, Len(LastText))
            n == Len(suffix)
            hours == SubSeq(suffix, 2, n - 3)
            minutes == SubSeq(suffix, n - 1, n)
        IN  /\ SubSeq(LastText, 1, Len(base)) = base
            /\ IF o = 0 THEN suffix = <<"Z">>
               ELSE /\ n >= 6
                    /\ suffix[1] = (IF o > 0 THEN "+" ELSE "-")
                    /\ IsDigits(hours) /\ TextNat(hours) = abs \div 60
                    /\ IF abs \div 60 < 100 THEN Len(hours) = 2 ELSE IsNumeral(hours)
                    /\ suffix[n - 2] = ":"
                    /\ IsDigits(minutes) /\ TextNat(minutes) = abs % 60

\* C15 as stated: whatever the offset, what follows the datetime text is Z
\* or a sign, two digits, a colon and two digits
C15_TwoDigitHours ==
    Written("datetimeoffset") =>
        Len(LastText) = Len(micros_to_iso(dec.arg.micros))
                        + (IF dec.arg.offset_minutes = 0 THEN 1 ELSE 6)

\* the offset -330 was written as -05:30 after the datetime text
C15_Witness ==
    /\ Written("datetimeoffset") /\ dec.arg.offset_minutes = -330
    /\ dec.arg.micros = LowOnes(64)
    /\ LastText = <<"1", "9", "6", "9", "-", "1", "2", "-", "3", "1", "T", "2", "3", ":",
                    "5", "9", ":", "5", "9", ".", "9", "9", "9", "9", "9", "9",
                    "-", "0", "5", ":", "3", "0">>

(***************************************************************************)
(* C16: the text of a time cell written for a nanosecond of the day        *)
(* n = secs * 10^9 + frac, 0 <= secs < 86400 and 0 <= frac < 10^9, is      *)
(* HH:MM:SS reading as secs, with HH below 24; a point and exactly seven   *)
(* digits reading as frac div 100, the last two digits of frac cut off,    *)
(* follow exactly when frac is not 0.                                      *)
(***************************************************************************)
C16_TimeText ==
    Written("time") =>
        LET x == dec.arg
            time == ReadTime(LastText)
        IN  /\ time.ok
            /\ time.secs = x.secs
            /\ IF x.frac = 0 THEN time.frac = <<>>
               ELSE Len(time.frac) = 7 /\ TextNat(time.frac) = x.frac \div 100

\* the last nanosecond of the day was written with the fraction 9999999
C16_Witness ==
    /\ Written("time") /\ dec.arg.secs = 86399 /\ dec.arg.frac = 999999999
    /\ LastText = <<"2", "3", ":", "5", "9", ":", "5", "9", ".",
                    "9", "9", "9", "9", "9", "9", "9">>

(***************************************************************************)
(* C3: when query converts a cell buffer whose length is not a multiple of *)
(* the column count, it fails; it returns no result that leaves the        *)
(* trailing partial row out.                                               *)
(***************************************************************************)
C3_PartialRowFails ==
    (qres # NoResult /\ js.cols_per_row > 0 /\ Len(js.values) % js.cols_per_row # 0)
        => qres.ok = FALSE

(***************************************************************************)
(* C20: when query converts a collector that received cells and never the  *)
(* metadata event, it fails; it returns no successful result that leaves   *)
(* the cells out.                                                          *)
(***************************************************************************)
C20_CellsWithoutMetadataFail ==
    (qres # NoResult /\ dec.metas = 0 /\ dec.cells > 0 /\ js.cols_per_row = 0)
        => qres.ok = FALSE

(***************************************************************************)
(* C21: a collector accepts the metadata event once per result set: a      *)
(* second metadata event on the same collector, also one that arrives      *)
(* after cells were written, does not replace the column list and the      *)
(* column count that slice the cells already buffered.                     *)
(***************************************************************************)
C21_SecondMetadataRejected ==
    [][(dec.metas >= 1 /\ dec'.metas = dec.metas + 1) =>
            /\ js'.columns = js.columns
            /\ js'.cols_per_row = js.cols_per_row]_vars

(***************************************************************************)
(* C4: every cell write appends one value after the values written before, *)
(* and with C > 0 columns and R*C buffered values query returns R rows of  *)
(* C cells, cell c of row r being buffered value r*C + c.                  *)
(***************************************************************************)
C4_Rows ==
    LET C == js.cols_per_row
        R == Len(js.values) \div C
    IN  (C > 0 /\ Len(js.values) % C = 0) =>
            /\ qres'.ok = TRUE
            /\ qres'.row_count = R
            /\ Len(qres'.rows) = R
            /\ \A r \in 1..R :
                  /\ Len(qres'.rows[r]) = C
                  /\ \A c \in 1..C : qres'.rows[r][c] = js.values[(r - 1) * C + c]

C4_RowsInWriteOrder ==
    [][/\ (dec'.cells # dec.cells) =>
            /\ Len(js'.values) = Len(js.values) + 1
            /\ SubSeq(js'.values, 1, Len(js.values)) = js.values
       /\ JsQueryConvert => C4_Rows
      ]_vars

\* two rows of two columns, four different cells, returned in write order
C4_Witness ==
    /\ qres # NoResult
    /\ qres.row_count = 2
    /\ qres.rows = << <<JsNull, JsI64(5)>>, <<JsStr(<<"a">>), JsNull>> >>

(***************************************************************************)
(* param_to_sql: one argument as a SQL literal.                            *)
(***************************************************************************)
HexUpper == <<"0", "1", "2", "3", "4", "5", "6", "7", "8", "9", "A", "B", "C", "D", "E", "F">>

\* v.iter().map(|b| format!("{:02X}", b)).collect()
RECURSIVE BytesHex(_)
BytesHex(v) ==
    IF v = <<>> THEN <<>>
    ELSE <<HexUpper[(Head(v) \div 16) + 1], HexUpper[(Head(v) % 16) + 1]>> \o BytesHex(Tail(v))

\* v.replace('\'', "''")
RECURSIVE DoubleQuotes(_)
DoubleQuotes(v) ==
    IF v = <<>> THEN <<>>
    ELSE (IF Head(v) = "'" THEN <<"'", "'">> ELSE <<Head(v)>>) \o DoubleQuotes(Tail(v))

\* the decimal digits of num/den below 1, den a power of two
RECURSIVE FracDigits(_, _)
FracDigits(num, den) ==
    IF num = 0 THEN <<>>
    ELSE <<Digits[((num * 10) \div den) + 1]>> \o FracDigits((num * 10) % den, den)

(***************************************************************************)
(* format!("{}", v) for an f64: NaN, inf, zero, and a finite value with an *)
(* integer part below 2^21 and at most 4 fraction bits, for which the      *)
(* shortest decimal that reads back as v is its exact expansion. Other     *)
(* values are outside this model.                                          *)
(***************************************************************************)
f64_to_string(b) ==
    LET ex == b[53] + 2 * b[54] + 4 * b[55] + 8 * b[56] + 16 * b[57] + 32 * b[58]
              + 64 * b[59] + 128 * b[60] + 256 * b[61] + 512 * b[62] + 1024 * b[63]
        fracZero == \A j \in 1..52 : b[j] = 0
        sign == IF b[64] = 1 THEN <<"-">> ELSE <<>>
        e == ex - 1023
        \* the 25 leading bits of the significand
        top == 16777216 + b[52] * 8388608 + b[51] * 4194304 + b[50] * 2097152
               + b[49] * 1048576 + b[48] * 524288 + b[47] * 262144 + b[46] * 131072
               + b[45] * 65536 + b[44] * 32768 + b[43] * 16384 + b[42] * 8192
               + b[41] * 4096 + b[40] * 2048 + b[39] * 1024 + b[38] * 512 + b[37] * 256
               + b[36] * 128 + b[35] * 64 + b[34] * 32 + b[33] * 16 + b[32] * 8
               + b[31] * 4 + b[30] * 2 + b[29]
        den == 2 ^ (24 - e)
    IN  IF ex = 2047 THEN (IF fracZero THEN sign \o <<"i", "n", "f">> ELSE <<"N", "a", "N">>)
        ELSE IF ex = 0 /\ fracZero THEN sign \o <<"0">>
        ELSE IF /\ e >= 0 /\ e <= 20
                /\ \A j \in 1..28 : b[j] = 0
                /\ (top % den) % (den \div 16) = 0
             THEN sign \o NatToString(top \div den)
                  \o (IF top % den = 0 THEN <<>> ELSE <<".">> \o FracDigits(top % den, den))
        ELSE <<"f64 outside the model">>

\* Str without the quote doubling
param_to_sql_unescaped(p) ==
    CASE p.k = "Null" -> <<"N", "U", "L", "L">>
      [] p.k = "Bool" -> IF p.v THEN <<"1">> ELSE <<"0">>
      [] p.k = "I64" -> IntToString(p.v)
      [] p.k = "F64" -> f64_to_string(p.v)
      [] p.k = "Str" -> <<"N", "'">> \o p.v \o <<"'">>
      [] p.k = "Bytes" -> <<"0", "x">> \o BytesHex(p.v)

param_to_sql(p) ==
    CASE p.k = "Null" -> <<"N", "U", "L", "L">>
      [] p.k = "Bool" -> IF p.v THEN <<"1">> ELSE <<"0">>
      [] p.k = "I64" -> IntToString(p.v)
      [] p.k = "F64" -> f64_to_string(p.v)
      [] p.k = "Str" -> <<"N", "'">> \o DoubleQuotes(p.v) \o <<"'">>
      [] p.k = "Bytes" -> <<"0", "x">> \o BytesHex(p.v)

(***************************************************************************)
(* substitute_params. Positions are counted from 0 as in the source:       *)
(* chars[i] there is chars[i + 1] here.                                    *)
(***************************************************************************)
is_ascii_digit(c) == c \in {"0", "1", "2", "3", "4", "5", "6", "7", "8", "9"}

\* while i < chars.len() && chars[i].is_ascii_digit() { i += 1 }
RECURSIVE DigitRunEnd(_, _)
DigitRunEnd(chars, j) ==
    IF j < Len(chars) /\ is_ascii_digit(chars[j + 1]) THEN DigitRunEnd(chars, j + 1) ELSE j

\* the inner loop of the literal branch: the position after the next quote,
\* or the end of the template
RECURSIVE LiteralEnd(_, _)
LiteralEnd(chars, j) ==
    IF j >= Len(chars) THEN j
    ELSE IF chars[j + 1] = "'" THEN j + 1
    ELSE LiteralEnd(chars, j + 1)

RECURSIVE StripZeros(_)
StripZeros(d) == IF d # <<>> /\ Head(d) = "0" THEN StripZeros(Tail(d)) ELSE d

DigitValue(c) == (CHOOSE k \in 1..10 : Digits[k] = c) - 1

RECURSIVE DigitsValue(_)
DigitsValue(d) ==
    IF d = <<>> THEN 0 ELSE DigitsValue(SubSeq(d, 1, Len(d) - 1)) * 10 + DigitValue(d[Len(d)])

\* lexicographic a <= b for digit strings of equal length
RECURSIVE DigitsLeq(_, _)
DigitsLeq(a, b) ==
    IF a = <<>> THEN TRUE
    ELSE IF DigitValue(Head(a)) # DigitValue(Head(b))
         THEN DigitValue(Head(a)) < DigitValue(Head(b))
    ELSE DigitsLeq(Tail(a), Tail(b))

(***************************************************************************)
(* num_str.parse::<usize>(): Err for the empty string and for a number     *)
(* above usize::MAX (2^64 - 1). The value is exact up to 9 significant     *)
(* digits; a longer one is held as 10^9, which like it is above every      *)
(* params.len() of the model.                                              *)
(***************************************************************************)
parse_usize(num_str) ==
    LET sig == StripZeros(num_str)
        \* usize::MAX
        UsizeMaxDigits == <<"1", "8", "4", "4", "6", "7", "4", "4", "0", "7", "3", "7",
                            "0", "9", "5", "5", "1", "6", "1", "5">>
    IN
    IF num_str = <<>> THEN [ok |-> FALSE, val |-> 0]
    ELSE IF Len(sig) > 20 \/ (Len(sig) = 20 /\ ~DigitsLeq(sig, UsizeMaxDigits))
         THEN [ok |-> FALSE, val |-> 0]
    ELSE IF Len(sig) > 9 THEN [ok |-> TRUE, val |-> 10 ^ 9]
    ELSE [ok |-> TRUE, val |-> DigitsValue(sig)]

\* only a lowercase p starts a placeholder
at_placeholder_lowercase(chars, pos) ==
    /\ chars[pos + 1] = "@"
    /\ pos + 1 < Len(chars)
    /\ chars[pos + 2] = "p"

\* the first branch of the loop is taken at position i
at_placeholder(chars, pos) ==
    /\ chars[pos + 1] = "@"
    /\ pos + 1 < Len(chars)
    /\ chars[pos + 2] \in {"p", "P"}

\* the token at i names an argument: the `if let Ok(idx) ... && ...` test
valid_param_ref(chars, ps, pos) ==
    LET idx == parse_usize(SubSeq(chars, pos + 3, DigitRunEnd(chars, pos + 2))) IN
    idx.ok /\ idx.val >= 1 /\ idx.val <= Len(ps)

\* "emit as-is" that drops the token
emit_as_is_nothing(chars, start, j) == <<>>

\* for c in &chars[start..i] { result.push(*c) }
emit_as_is(chars, start, j) == SubSeq(chars, start + 1, j)

\* the loop body without the string-literal branch
subst_step_no_literal(chars, ps, st) ==
    IF at_placeholder(chars, st.i)
    THEN LET j == DigitRunEnd(chars, st.i + 2)
             idx == parse_usize(SubSeq(chars, st.i + 3, j))
         IN  IF valid_param_ref(chars, ps, st.i)
             THEN [i |-> j, result |-> st.result \o param_to_sql(ps[idx.val])]
             ELSE [i |-> j, result |-> st.result \o emit_as_is(chars, st.i, j)]
    ELSE [i |-> st.i + 1, result |-> Append(st.result, chars[st.i + 1])]

\* the loop body that goes on right after @p when the token names no argument
subst_step_rereads_digits(chars, ps, st) ==
    IF at_placeholder(chars, st.i)
    THEN LET j == DigitRunEnd(chars, st.i + 2)
             idx == parse_usize(SubSeq(chars, st.i + 3, j))
         IN  IF valid_param_ref(chars, ps, st.i)
             THEN [i |-> j, result |-> st.result \o param_to_sql(ps[idx.val])]
             ELSE [i |-> st.i + 2, result |-> st.result \o emit_as_is(chars, st.i, j)]
    ELSE IF chars[st.i + 1] = "'"
    THEN LET j == LiteralEnd(chars, st.i + 1) IN
         [i |-> j, result |-> st.result \o SubSeq(chars, st.i + 1, j)]
    ELSE [i |-> st.i + 1, result |-> Append(st.result, chars[st.i + 1])]

\* one iteration of `while i < chars.len()`
subst_step(chars, ps, st) ==
    IF at_placeholder(chars, st.i)
    THEN LET j == DigitRunEnd(chars, st.i + 2)
             idx == parse_usize(SubSeq(chars, st.i + 3, j))
         IN  IF valid_param_ref(chars, ps, st.i)
             THEN [i |-> j, result |-> st.result \o param_to_sql(ps[idx.val])]
             ELSE [i |-> j, result |-> st.result \o emit_as_is(chars, st.i, j)]
    ELSE IF chars[st.i + 1] = "'"
    THEN LET j == LiteralEnd(chars, st.i + 1) IN
         [i |-> j, result |-> st.result \o SubSeq(chars, st.i + 1, j)]
    ELSE [i |-> st.i + 1, result |-> Append(st.result, chars[st.i + 1])]

RECURSIVE subst_loop(_, _, _)
subst_loop(chars, ps, st) ==
    IF st.i < Len(chars) THEN subst_loop(chars, ps, subst_step(chars, ps, st))
    ELSE [ok |-> TRUE, value |-> st.result]

substitute_params(chars, ps) == subst_loop(chars, ps, [i |-> 0, result |-> <<>>])

(***************************************************************************)
(* substitute_params run one loop iteration at a time.                     *)
(***************************************************************************)
RECURSIVE SeqsUpTo(_, _)
SeqsUpTo(S, n) ==
    IF n = 0 THEN {<<>>}
    ELSE LET shorter == SeqsUpTo(S, n - 1) IN
         shorter \cup {Append(t, c) : t \in {u \in shorter : Len(u) = n - 1}, c \in S}

\* every template of up to MaxTemplateLen characters over @ p P 0 1 2 ', and
\* longer ones: tokens inside and outside literals, a doubled quote, leading
\* zeros, a token followed by a token and an unclosed literal, a number above
\* usize::MAX, a number above every argument count
Templates ==
    SeqsUpTo({"@", "p", "P", "0", "1", "2", "'"}, MaxTemplateLen)
    \cup
    { <<"x", "=", "@", "p", "1", " ", "'", "a", " ", "@", "p", "1", "'">>,
      <<"'", "@", "p", "1", "'">>,
      <<"'", "a", "'", "'", "@", "p", "1", "'">>,
      <<"@", "p", "0", "x">>,
      <<"@", "P", "2", "@", "p", "1", "'", "@", "p", "1">>,
      <<"@", "p", "0", "1", "@", "P", "0", "0", "2">>,
      <<"@", "p", "1", "8", "4", "4", "6", "7", "4", "4", "0", "7", "3", "7", "0", "9",
        "5", "5", "1", "6", "1", "6", ",", "@", "p", "1">>,
      <<"@", "p", "1", "0", "0", "0", "0", "0", "0", "0", "0", "0", "0", "1">> }

ArgLists ==
    { <<>>,
      <<JsStr(<<"o", "'", "k">>)>>,
      <<JsI64(-7), JsStr(<<"'", "@", "p", "1", "'", "'">>)>>,
      <<JsNull, JsBool(TRUE)>>,
      <<JsBytes(<<0, 171, 255>>), JsBool(FALSE)>>,
      <<JsF64(F64OneAndHalf), JsI64(120)>> }

SubstRunning == ret = NoResult /\ i < Len(sql)

SubstStep ==
    /\ i' = subst_step(sql, params, [i |-> i, result |-> result]).i
    /\ result' = subst_step(sql, params, [i |-> i, result |-> result]).result
    /\ UNCHANGED <<sql, params, ret, dec, fastVars, jsVars, clientVars>>

\* @pN naming an argument: replaced by its literal
SubstParam ==
    /\ SubstRunning
    /\ at_placeholder(sql, i)
    /\ valid_param_ref(sql, params, i)
    /\ SubstStep

\* @p followed by no digits or by a number that names no argument
SubstNotParam ==
    /\ SubstRunning
    /\ at_placeholder(sql, i)
    /\ ~valid_param_ref(sql, params, i)
    /\ SubstStep

\* a quote: the literal up to the next quote is copied
SubstLiteral ==
    /\ SubstRunning
    /\ ~at_placeholder(sql, i)
    /\ sql[i + 1] = "'"
    /\ SubstStep

SubstChar ==
    /\ SubstRunning
    /\ ~at_placeholder(sql, i)
    /\ sql[i + 1] # "'"
    /\ SubstStep

\* the loop has ended: Ok(result)
SubstReturn ==
    /\ ret = NoResult
    /\ i >= Len(sql)
    /\ ret' = [ok |-> TRUE, value |-> result]
    /\ UNCHANGED <<sql, params, i, result, dec, fastVars, jsVars, clientVars>>

InitSubst ==
    /\ sql \in Templates
    /\ params \in ArgLists
    /\ i = 0
    /\ result = <<>>
    /\ ret = NoResult
    /\ dec = DecInit(0)
    /\ FastIdle
    /\ JsIdle
    /\ ClientIdle

NextSubst == SubstParam \/ SubstNotParam \/ SubstLiteral \/ SubstChar \/ SubstReturn

SpecSubst == InitSubst /\ [][NextSubst]_vars

\* the call is a synchronous function: once entered it runs on, an iteration
\* or the return is taken whenever one can be. Called with every template,
\* with no argument or with an integer and a text that holds quotes and @p1
InitSubstFair ==
    /\ InitSubst
    /\ params \in {<<>>, <<JsI64(-7), JsStr(<<"'", "@", "p", "1", "'", "'">>)>>}

SpecSubstFair == InitSubstFair /\ [][NextSubst]_vars /\ WF_vars(NextSubst)

(***************************************************************************)
(* The template read without the scanner: literals by quote parity, tokens *)
(* by their shape. Positions here are counted from 1.                      *)
(***************************************************************************)
QuotesBefore(k) == Cardinality({j \in 1..(k - 1) : sql[j] = "'"})

\* position k lies after an opening quote and before the quote that follows it
InsideLiteral(k) == QuotesBefore(k) % 2 = 1 /\ sql[k] # "'"

\* position k lies outside every literal and is no quote
OutsideLiteral(k) == QuotesBefore(k) % 2 = 0 /\ sql[k] # "'"

\* the number of digits that follow position k
DigitsAfter(k) ==
    CHOOSE d \in 0..(Len(sql) - k) :
        /\ \A j \in 1..d : is_ascii_digit(sql[k + j])
        /\ k + d = Len(sql) \/ ~is_ascii_digit(sql[k + d + 1])

\* an @p or @P starts at position k
TokenAt(k) == k + 1 <= Len(sql) /\ sql[k] = "@" /\ sql[k + 1] \in {"p", "P"}

\* the token at k is @p followed by digits that are the number n, n >= 1
TokenNames(k, n) ==
    /\ TokenAt(k)
    /\ DigitsAfter(k + 1) >= 1
    /\ StripZeros(SubSeq(sql, k + 2, k + 1 + DigitsAfter(k + 1))) = NatToString(n)

TokenNamesArgument(k) == \E n \in 1..Len(params) : TokenNames(k, n)

\* what one step of the scan consumed and produced
Consumed == SubSeq(sql, i + 1, i')
Produced == SubSeq(result', Len(result) + 1, Len(result'))
StepAppends ==
    /\ i' > i
    /\ i' <= Len(sql)
    /\ Len(result') >= Len(result)
    /\ SubSeq(result', 1, Len(result)) = result

(***************************************************************************)
(* C5: a step of the scan that consumes a character lying between an       *)
(* opening quote and the next quote copies what it consumes to the output  *)
(* unchanged, so nothing inside a literal is ever replaced.                *)
(***************************************************************************)
C5_LiteralsCopied ==
    [][(i' # i) =>
          /\ StepAppends
          /\ (\E k \in (i + 1)..i' : InsideLiteral(k)) => Produced = Consumed
      ]_vars

\* '@p1' was scanned with an argument at hand and came out unchanged
C5_Witness ==
    /\ ret # NoResult
    /\ sql = <<"'", "@", "p", "1", "'">>
    /\ params = <<JsStr(<<"o", "'", "k">>)>>
    /\ ret.value = sql

(***************************************************************************)
(* C6: a token @p<digits> or @P<digits> outside a literal whose number n   *)
(* is in 1..argument count starts a step of the scan, and that step        *)
(* consumes the @, the p and all the digits and produces param_to_sql of   *)
(* argument n.                                                             *)
(***************************************************************************)
C6_ValidTokenReplaced ==
    [][(i' # i) =>
          /\ \A n \in 1..Len(params) :
                TokenNames(i + 1, n) =>
                    /\ i' = i + 2 + DigitsAfter(i + 2)
                    /\ Produced = param_to_sql(params[n])
                    /\ StepAppends
          /\ \A k \in (i + 2)..i' : ~(OutsideLiteral(k) /\ TokenNamesArgument(k))
      ]_vars

\* @P002 named the second of two arguments
C6_Witness ==
    /\ ret # NoResult
    /\ sql = <<"@", "p", "0", "1", "@", "P", "0", "0", "2">>
    /\ params = <<JsNull, JsBool(TRUE)>>
    /\ ret.value = <<"N", "U", "L", "L", "1">>

(***************************************************************************)
(* C7: a token that starts with @p outside a literal and has no digits or  *)
(* names no argument (0, above the argument count, too large for usize) is *)
(* copied character for character, the scan goes on right after it, and    *)
(* the call returns Ok.                                                    *)
(***************************************************************************)
C7_InvalidTokenCopied ==
    [][/\ (i' # i /\ TokenAt(i + 1) /\ ~TokenNamesArgument(i + 1)) =>
            /\ i' = i + 2 + DigitsAfter(i + 2)
            /\ Produced = Consumed
            /\ StepAppends
       /\ (ret' # ret) => (ret'.ok = TRUE /\ ret'.value = result /\ i = Len(sql))
      ]_vars

\* 18446744073709551616 does not fit usize: copied, and the @p1 after it replaced
C7_Witness ==
    /\ ret # NoResult
    /\ ret.ok = TRUE
    /\ params = <<JsNull, JsBool(TRUE)>>
    /\ sql = <<"@", "p", "1", "8", "4", "4", "6", "7", "4", "4", "0", "7", "3", "7", "0",
               "9", "5", "5", "1", "6", "1", "6", ",", "@", "p", "1">>
    /\ ret.value = <<"@", "p", "1", "8", "4", "4", "6", "7", "4", "4", "0", "7", "3", "7",
                     "0", "9", "5", "5", "1", "6", "1", "6", ",", "N", "U", "L", "L">>

(***************************************************************************)
(* C8: the literal produced for an argument: NULL for Null, 1 or 0 for     *)
(* Bool, the decimal digits for Int64, 0x and two uppercase hex digits per *)
(* byte for Bytes, and for Str the text between N' and ', in which quotes  *)
(* occur only in pairs and which is the argument once each pair is read as *)
(* one quote.                                                              *)
(***************************************************************************)
UndoubleFails == <<"a lone quote">>

\* s with each pair of quotes read as one quote
RECURSIVE Undouble(_)
Undouble(s) ==
    IF s = <<>> THEN <<>>
    ELSE IF Head(s) # "'"
         THEN (IF Undouble(Tail(s)) = UndoubleFails THEN UndoubleFails
               ELSE <<Head(s)>> \o Undouble(Tail(s)))
    ELSE IF Len(s) >= 2 /\ s[2] = "'"
         THEN (IF Undouble(Tail(Tail(s))) = UndoubleFails THEN UndoubleFails
               ELSE <<"'">> \o Undouble(Tail(Tail(s))))
    ELSE UndoubleFails

HexValue(c) == (CHOOSE k \in 1..16 : HexUpper[k] = c) - 1

IsDecimalOf(out, v) ==
    LET digits == IF v < 0 THEN Tail(out) ELSE out IN
    /\ out # <<>>
    /\ v < 0 => Head(out) = "-"
    /\ digits # <<>>
    /\ \A k \in 1..Len(digits) : is_ascii_digit(digits[k])
    /\ Len(digits) > 1 => digits[1] # "0"
    /\ DigitsValue(digits) = (IF v < 0 THEN 0 - v ELSE v)

Rendered(p, out) ==
    CASE p.k = "Null" -> out = <<"N", "U", "L", "L">>
      [] p.k = "Bool" -> out = (IF p.v THEN <<"1">> ELSE <<"0">>)
      [] p.k = "I64" -> IsDecimalOf(out, p.v)
      [] p.k = "Bytes" ->
            /\ Len(out) = 2 + 2 * Len(p.v)
            /\ SubSeq(out, 1, 2) = <<"0", "x">>
            /\ \A k \in 1..Len(p.v) :
                  /\ \E a, b \in 1..16 : out[2 * k + 1] = HexUpper[a] /\ out[2 * k + 2] = HexUpper[b]
                  /\ 16 * HexValue(out[2 * k + 1]) + HexValue(out[2 * k + 2]) = p.v[k]
      [] p.k = "Str" ->
            /\ Len(out) >= 3
            /\ SubSeq(out, 1, 2) = <<"N", "'">>
            /\ out[Len(out)] = "'"
            /\ Undouble(SubSeq(out, 3, Len(out) - 1)) = p.v
      [] OTHER -> TRUE

C8_ParamRendering ==
    [][\A n \in 1..Len(params) :
          (i' # i /\ TokenNames(i + 1, n)) => Rendered(params[n], Produced)
      ]_vars

\* a text with a quote in it was inlined with the quote doubled
C8_Witness ==
    /\ ret # NoResult
    /\ sql = <<"@", "p", "1">>
    /\ params = <<JsStr(<<"o", "'", "k">>)>>
    /\ ret.value = <<"N", "'", "o", "'", "'", "k", "'">>

(***************************************************************************)
(* C23: substitute_params is one forward pass that always ends. Every      *)
(* iteration moves the position forward inside the template and appends to *)
(* the output either the template characters it consumed or the literal of *)
(* one argument; the position it reaches is the same whatever the          *)
(* arguments contain, an iteration starts outside every literal of the     *)
(* template, the return comes with the whole template consumed, and every  *)
(* call returns.                                                           *)
(***************************************************************************)
C23_ForwardPass ==
    [][/\ (i' # i \/ result' # result) =>
            /\ StepAppends
            /\ \/ Produced = Consumed
               \/ \E n \in 1..Len(params) : Produced = param_to_sql(params[n])
            /\ \A ps \in ArgLists :
                  Len(ps) = Len(params) =>
                      subst_step(sql, ps, [i |-> i, result |-> <<>>]).i = i'
            /\ i' < Len(sql) => QuotesBefore(i' + 1) % 2 = 0
       /\ (ret' # ret) => (i = Len(sql) /\ i' = i)
      ]_vars

C23_SinglePass == C23_ForwardPass /\ <>(ret # NoResult)

\* the text inlined for @P2 holds @p1 and quotes: it came out as rendered, the
\* @p1 after it was replaced and the '@p1 after that copied
C23_Witness ==
    /\ ret # NoResult
    /\ sql = <<"@", "P", "2", "@", "p", "1", "'", "@", "p", "1">>
    /\ params = <<JsI64(-7), JsStr(<<"'", "@", "p", "1", "'", "'">>)>>
    /\ ret.value = <<"N", "'", "'", "'", "@", "p", "1", "'", "'", "'", "'", "'">>
                   \o <<"-", "7">> \o <<"'", "@", "p", "1">>

(***************************************************************************)
(* Client: connect, query, execute, query_raw, close and end called by     *)
(* concurrent tasks. Client.inner is an Option behind a tokio Mutex; a     *)
(* call is suspended at inner.lock().await until the guard is free, and a  *)
(* query holds the guard from there to its return. Each step below runs    *)
(* from one await to the next.                                             *)
(***************************************************************************)
Tasks == 1..NTasks

QueryOps == {"query", "execute", "query_raw"}
CloseOps == {"close", "end"}

NoWriter == [none |-> TRUE]
NoSql == <<"no sql">>

\* before_close is history, not program state: a close returned while this
\* connect call was in flight
TaskIdle ==
    [op |-> "none", pc |-> "idle", params |-> "None", writer |-> NoWriter,
     final_sql |-> NoSql, sent |-> "start", batches |-> 0, res |-> NoResult,
     before_close |-> FALSE]

Ok(v) == [ok |-> TRUE, value |-> v]
Err(e) == [ok |-> FALSE, err |-> e]

\* the guard is handed out whatever its state
mutex_free_unchecked == TRUE

\* inner.lock().await completes only when no guard is out
mutex_free == guard = NoTask

\* let final_sql = if let Some(ref p) = params { if p.is_empty() ... }
\* choice: params is None, Some(vec![]) ("Empty") or Some(vec![I64(5)]); sql is @p1
final_sql_of(choice) ==
    LET sql_arg == <<"@", "p", "1">> IN
    IF choice = "Some" THEN substitute_params(sql_arg, <<JsI64(5)>>).value ELSE sql_arg

\* JsRowCollector::default() in query and execute, FastRowCollector::default() in query_raw
writer_of(op) ==
    IF op = "query_raw" THEN FastRowCollector_default ELSE JsRowCollector_default

\* what the call returns once batch_into returned Ok
return_of(op, w) ==
    IF op = "query" THEN query_result(w)
    ELSE IF op = "execute" THEN Ok(w.rows_affected)
    ELSE Ok(encode(w))

\* format!("Query failed: {e}"), format!("Execute failed: {e}")
failed_of(op, e) ==
    IF op = "execute" THEN Err("Execute failed: " \o e) ELSE Err("Query failed: " \o e)

\* a task calls a method of the Client
ClientCall(t, op, choice) ==
    /\ task[t].pc = "idle"
    /\ task' = [task EXCEPT ![t] =
            [TaskIdle EXCEPT !.op = op,
                             !.params = IF op \in QueryOps THEN choice ELSE "None",
                             !.pc = IF op = "connect" THEN "connecting" ELSE "locking"]]
    /\ UNCHANGED <<inner, guard, dec, fastVars, jsVars, substVars>>

\* connect: TdsClient::connect_with_redirect(...).await returned a client
ConnectEstablished(t) ==
    /\ task[t].pc = "connecting"
    /\ task' = [task EXCEPT ![t].pc = "locking"]
    /\ UNCHANGED <<inner, guard, dec, fastVars, jsVars, substVars>>

\* connect: it returned an error, which `?` returns
ConnectFailed(t) ==
    /\ task[t].pc = "connecting"
    /\ task' = [task EXCEPT ![t].pc = "returned", ![t].res = Err("Connection failed"),
                            ![t].before_close = FALSE]
    /\ UNCHANGED <<inner, guard, dec, fastVars, jsVars, substVars>>

\* connect: *self.inner.lock().await = Some(client); Ok(())
ConnectStore(t) ==
    /\ task[t].pc = "locking"
    /\ task[t].op = "connect"
    /\ mutex_free
    /\ inner' = "Some"
    /\ task' = [task EXCEPT ![t].pc = "returned", ![t].res = Ok("unit"),
                            ![t].before_close = FALSE]
    /\ UNCHANGED <<guard, dec, fastVars, jsVars, substVars>>

\* close, end: *self.inner.lock().await = None; Ok(())
Close(t) ==
    /\ task[t].pc = "locking"
    /\ task[t].op \in CloseOps
    /\ mutex_free
    /\ inner' = "None"
    /\ task' = [u \in Tasks |->
            IF u = t THEN [task[t] EXCEPT !.pc = "returned", !.res = Ok("unit")]
            ELSE IF task[u].op = "connect" /\ task[u].pc \in {"connecting", "locking"}
            THEN [task[u] EXCEPT !.before_close = TRUE]
            ELSE task[u]]
    /\ UNCHANGED <<guard, dec, fastVars, jsVars, substVars>>

\* the not-connected return that keeps the guard
NotConnected_keeps_guard(t) ==
    /\ task[t].pc = "locking"
    /\ task[t].op \in QueryOps
    /\ mutex_free
    /\ inner = "None"
    /\ guard' = t
    /\ task' = [task EXCEPT ![t].pc = "returned",
                            ![t].res = Err("Not connected. Call connect() first.")]
    /\ UNCHANGED <<inner, dec, fastVars, jsVars, substVars>>

\* query, execute, query_raw: the guard is taken and inner is None; `?` returns
\* the error and the guard is dropped
NotConnected(t) ==
    /\ task[t].pc = "locking"
    /\ task[t].op \in QueryOps
    /\ mutex_free
    /\ inner = "None"
    /\ task' = [task EXCEPT ![t].pc = "returned",
                            ![t].res = Err("Not connected. Call connect() first.")]
    /\ UNCHANGED <<inner, guard, dec, fastVars, jsVars, substVars>>

\* query, execute, query_raw: the guard is taken, the writer made, the
\* arguments inlined (params is moved out of) and batch_into called
BeginBatch(t) ==
    /\ task[t].pc = "locking"
    /\ task[t].op \in QueryOps
    /\ mutex_free
    /\ inner = "Some"
    /\ guard' = t
    /\ task' = [task EXCEPT ![t].pc = "batch",
                            ![t].params = "None",
                            ![t].writer = writer_of(task[t].op),
                            ![t].final_sql = final_sql_of(task[t].params),
                            ![t].batches = @ + 1]
    /\ UNCHANGED <<inner, dec, fastVars, jsVars, substVars>>

\* batch_into sends the metadata event to the call's writer
BatchOnMetadata(t) ==
    /\ task[t].pc = "batch"
    /\ task[t].sent = "start"
    /\ task' = [task EXCEPT
            ![t].sent = "metadata",
            ![t].writer = IF task[t].op = "query_raw"
                          THEN Fast_on_metadata(@, <<ColA>>)
                          ELSE Js_on_metadata(@, <<ColA>>)]
    /\ UNCHANGED <<inner, guard, dec, fastVars, jsVars, substVars>>

\* batch_into sends a cell to the call's writer
BatchWrite(t) ==
    /\ task[t].pc = "batch"
    /\ task[t].sent = "metadata"
    /\ task' = [task EXCEPT
            ![t].sent = "cell",
            ![t].writer = IF task[t].op = "query_raw"
                          THEN Fast_write_i32(@, 5)
                          ELSE Js_write_i32(@, 5)]
    /\ UNCHANGED <<inner, guard, dec, fastVars, jsVars, substVars>>

\* batch_into sends the completion event
BatchOnDone(t) ==
    /\ task[t].pc = "batch"
    /\ task[t].sent # "done"
    /\ task' = [task EXCEPT
            ![t].sent = "done",
            ![t].writer = IF task[t].op = "query_raw"
                          THEN Fast_on_done(@, 1)
                          ELSE Js_on_done(@, 1)]
    /\ UNCHANGED <<inner, guard, dec, fastVars, jsVars, substVars>>

\* batch_into returned Ok: the result is built, the locals and the guard dropped
BatchOk(t) ==
    /\ task[t].pc = "batch"
    /\ task[t].sent = "done"
    /\ guard' = IF guard = t THEN NoTask ELSE guard
    /\ task' = [task EXCEPT ![t].pc = "returned",
                            ![t].res = return_of(task[t].op, task[t].writer),
                            ![t].final_sql = NoSql,
                            ![t].writer = NoWriter]
    /\ UNCHANGED <<inner, dec, fastVars, jsVars, substVars>>

\* the error return that also drops the connection
BatchErr_disconnects(t, e) ==
    /\ task[t].pc = "batch"
    /\ guard' = IF guard = t THEN NoTask ELSE guard
    /\ inner' = "None"
    /\ task' = [task EXCEPT ![t].pc = "returned",
                            ![t].res = failed_of(task[t].op, e),
                            ![t].final_sql = NoSql,
                            ![t].writer = NoWriter]
    /\ UNCHANGED <<dec, fastVars, jsVars, substVars>>

\* batch_into returned the error e, at any point of the stream: map_err and
\* `?`, the locals and the guard dropped
BatchErr(t, e) ==
    /\ task[t].pc = "batch"
    /\ guard' = IF guard = t THEN NoTask ELSE guard
    /\ task' = [task EXCEPT ![t].pc = "returned",
                            ![t].res = failed_of(task[t].op, e),
                            ![t].final_sql = NoSql,
                            ![t].writer = NoWriter]
    /\ UNCHANGED <<inner, dec, fastVars, jsVars, substVars>>

\* the caller has its result; the task may call again
Resolve(t) ==
    /\ task[t].pc = "returned"
    /\ task' = [task EXCEPT ![t] = TaskIdle]
    /\ UNCHANGED <<inner, guard, dec, fastVars, jsVars, substVars>>

Init ==
    /\ inner = "None"
    /\ guard = NoTask
    /\ task = [t \in Tasks |-> TaskIdle]
    /\ dec = DecInit(0)
    /\ FastIdle
    /\ JsIdle
    /\ SubstIdle

Next ==
    \E t \in Tasks :
        \/ \E op \in {"connect"} \cup QueryOps \cup CloseOps, choice \in {"None", "Empty", "Some"} :
                ClientCall(t, op, choice)
        \/ ConnectEstablished(t)
        \/ ConnectFailed(t)
        \/ ConnectStore(t)
        \/ Close(t)
        \/ NotConnected(t)
        \/ BeginBatch(t)
        \/ BatchOnMetadata(t)
        \/ BatchWrite(t)
        \/ BatchOnDone(t)
        \/ BatchOk(t)
        \/ \E e \in {"token error", "io error"} : BatchErr(t, e)
        \/ Resolve(t)

Spec == Init /\ [][Next]_vars

(***************************************************************************)
(* C10: the decoder-driven phases of two calls never overlap: a call that  *)
(* is between taking the connection and the end of batch_into holds the    *)
(* guard, and no other call is in that phase, so no writer receives events *)
(* while another call's batch is in flight.                                *)
(***************************************************************************)
C10_BatchesDoNotOverlap ==
    \A t \in Tasks :
        task[t].pc = "batch" =>
            /\ guard = t
            /\ \A u \in Tasks \ {t} : task[u].pc # "batch" /\ task[u].writer = NoWriter

\* one query has a cell in its writer while another call waits for the guard
C10_Witness ==
    \E t, u \in Tasks :
        /\ t # u
        /\ task[t].pc = "batch" /\ task[t].sent = "cell"
        /\ task[u].pc = "locking" /\ task[u].op \in QueryOps

(***************************************************************************)
(* C11: a query, execute or query_raw call that gets the guard while the   *)
(* Client is disconnected returns the not-connected error; no writer was   *)
(* made, no SQL built and batch_into not called; the Client stays          *)
(* disconnected and the guard is free afterwards.                          *)
(***************************************************************************)
C11_NotConnectedError ==
    [][\A t \in Tasks :
          (/\ task[t].pc = "locking"
           /\ task[t].op \in QueryOps
           /\ inner = "None"
           /\ task'[t] # task[t]) =>
              /\ task'[t].pc = "returned"
              /\ task'[t].res = [ok |-> FALSE, err |-> "Not connected. Call connect() first."]
              /\ task'[t].batches = 0
              /\ task'[t].final_sql = NoSql
              /\ task'[t].writer = NoWriter
              /\ task'[t].sent = "start"
              /\ inner' = "None"
              /\ guard' = NoTask
      ]_vars

\* a close has returned, and a call made with arguments got the error
C11_Witness ==
    \E t, u \in Tasks :
        /\ task[u].pc = "returned" /\ task[u].op \in CloseOps
        /\ task[t].pc = "returned" /\ task[t].op \in QueryOps
        /\ task[t].params = "Some"
        /\ task[t].res = [ok |-> FALSE, err |-> "Not connected. Call connect() first."]
        /\ inner = "None"

(***************************************************************************)
(* C19: when batch_into returns an error e to a query, execute or          *)
(* query_raw call, the call returns the error that wraps e and no value,   *)
(* its writer dropped with whatever cells it held; batch_into was called   *)
(* once by the call; the guard is free and the Client still holds its      *)
(* connection afterwards.                                                  *)
(***************************************************************************)
C19_DecoderFailure ==
    [][\A t \in Tasks, e \in {"token error", "io error"} :
          BatchErr(t, e) =>
              /\ task'[t].pc = "returned"
              /\ task'[t].res =
                    [ok |-> FALSE,
                     err |-> (IF task[t].op = "execute" THEN "Execute failed: "
                              ELSE "Query failed: ") \o e]
              /\ task'[t].batches = 1
              /\ task'[t].writer = NoWriter
              /\ guard' = NoTask
              /\ inner' = "Some"
      ]_vars

\* a call has returned the error of a failed batch, and another call has
\* the connection and a cell in its writer
C19_Witness ==
    \E t, u \in Tasks :
        /\ task[t].pc = "returned" /\ task[t].op \in QueryOps
        /\ task[t].res = [ok |-> FALSE, err |-> "Query failed: io error"]
        /\ task[u].pc = "batch" /\ task[u].sent = "cell" /\ guard = u

(***************************************************************************)
(* C22: close is final with respect to earlier connects: a connect that    *)
(* was in flight while a close returned does not move the Client from      *)
(* Disconnected to Connected, so the queries started after that close keep *)
(* failing with the not-connected error until a later connect completes.   *)
(***************************************************************************)
C22_CloseIsFinal ==
    [][\A t \in Tasks :
            (task[t].op = "connect" /\ task[t].before_close /\ inner = "None")
                => inner' = "None"]_vars

=============================================================================
